---- MODULE Spec2Model ----
(***************************************************************************)
(* Model of SphereGrindingMachine.ino: the cooperative main loop (menu     *)
(* handling, limits, mode coordinator, DC scheduler), the stepper timer    *)
(* interrupt and the button timer interrupt, communicating through the     *)
(* sketch's global variables.                                              *)
(*                                                                         *)
(* The functions of the sketch that run in the main loop are operators on  *)
(* a record holding the globals they touch (field names are the globals'   *)
(* names); an action of the model runs one function of loop() or one       *)
(* firing of an interrupt handler.                                         *)
(***************************************************************************)
EXTENDS Integers, Sequences, FiniteSets, TLC

(***************************************************************************)
(* Program constants (#define lines and literals of the sketch).           *)
(***************************************************************************)
STEPS_PER_MICROMETER == 11
NUMBER_OF_MENU_LEVELS == 3
MAX_ITEMS_LEVEL_1 == 4
MAX_ITEMS_LEVEL_2 == 59
MAX_ITEMS_LEVEL_3 == 49
NUMBER_OF_DC_MOTORS == 4
NUMBER_OF_PROGRAMS == 8
NUMBER_OF_PROGRAM_SEGMENTS == 5
FRAME_ARRAY_SIZE == 3
DUTY_MAX == 100
TIMESLOT_MAX == 599
DWELL_MAX == 32766
MINUTE_INCREMENT == 60
LONG_PRESS_REPEATS == 6
BUTTON_CHANGECOUNT == 5
MAX_STEPS_PER_SECOND == 1020
AUTOREPEAT_COUNT == 5000
LONG_PRESS_COUNT == 80000

(***************************************************************************)
(* Bounds of the model (not program constants).                            *)
(***************************************************************************)
\* the operator moves the cursor of a level no further down than this entry
MaxCursor == 3
\* the operator edits a micrometer-valued field only inside 0..MaxMicrometer
MaxMicrometer == 0
\* millis() is followed up to MaxSeconds * 1000
MaxSeconds == 1
\* SpecStepper draws axis positions and targets from 0..MaxSteps
MaxSteps == 2
\* the operator selects the programs 1..MaxProgram
MaxProgram == 1
\* SpecPulse moves the initialization targets within 0..MaxTravel micrometer
MaxTravel == 1
\* at most MaxButtons of the six button event flags are set at a time
MaxButtons == 2
\* SpecDc draws the seconds since the start of the program from 0..MaxElapsed
MaxElapsed == 17
\* SpecMenu draws the cursor of level 2 from 1..MaxEntry
MaxEntry == 25
\* SpecMenu draws the cursor of level 3 from 1..MaxSubEntry
MaxSubEntry == 2
Window == 2

(***************************************************************************)
(* C arithmetic.                                                           *)
(***************************************************************************)
Abs(x) == IF x < 0 THEN -x ELSE x

\* C integer division truncates toward zero
CDiv(a, b) ==
  IF (a >= 0) = (b > 0) THEN Abs(a) \div Abs(b) ELSE -(Abs(a) \div Abs(b))

CMod(a, b) == a - b * CDiv(a, b)

TwoTo8 == 2^8
TwoTo16 == 2^16

\* int, long and unsigned long are 32 bits wide on the target.  The
\* micrometer values this model follows stay far inside that width
\* (MaxMicrometer), so their arithmetic is written as is; the arithmetic of
\* the program duration and of millis() keeps the width, see Int32.
\* value of the low byte read as int8_t, of the low half-word as uint16_t
ToInt8(x) == LET u == x % TwoTo8 IN IF u >= 128 THEN u - TwoTo8 ELSE u
ToUInt16(x) == x % TwoTo16

(***************************************************************************)
(* The menu array as setupMenu() fills it.  An entry is addressed by       *)
(* (x, y, z) = menu[x][y][z].                                              *)
(***************************************************************************)
\* menu[x][y][z].itemName[0] != '\0'
itemNamed(x, y, z) ==
  \/ z = 0 /\ y = 0 /\ x \in 1..4
  \/ z = 0 /\ x = 1 /\ y \in 1..2
  \/ z = 0 /\ x = 2 /\ y \in 1..7
  \/ z = 0 /\ x = 3 /\ y \in 1..57
  \/ z = 0 /\ x = 4 /\ y \in 1..NUMBER_OF_PROGRAMS
  \/ x = 4 /\ y \in 1..NUMBER_OF_PROGRAMS /\ z \in 1..43

\* menu[x][y][z].isReadOnly
isReadOnly(x, y, z) == x = 3 /\ z = 0 /\ y \in {5, 10, 11, 12, 13, 14}

\* menu[x][y][z].isMinutes
isMinutes(x, y, z) == x = 3 /\ z = 0 /\ y \in {9, 11, 12}

\* menu[x][y][z].isCallingFunction
isCallingFunction(x, y, z) ==
  z = 0 /\ (\/ x = 1 /\ y \in {1, 2}
            \/ x = 2 /\ y \in {1, 2}
            \/ x = 3 /\ y \in {2, 3, 4})

\* What an itemPtr points to:
\*   <<"null">>            no binding (itemPtr == 0)
\*   <<"flag", name>>      one of the bool action flags (never read)
\*   <<"mode", name>>      the bool mode flag isRunningToStartPos
\*   <<"int", name>>       an int global
\*   <<"cfg", name>>       an int member of eepromData
\*   <<"duty", i, k, m>>   &dcDutyCycle[i][k][m]   (int8_t)
\*   <<"slot", i, k, m>>   &dcTimeslot[i][k][m]    (uint16_t)
NullPtr == <<"null">>

\* the ten duty/timeslot rows of a DC block followed by a separator row:
\* row r (0-based) of the list of 43 rows "DC 1 Duty A" .. "DC 4 Time E"
cellPtr(r, k) ==
  LET i == (r \div 11) + 1
      o == r % 11
      m == (o \div 2) + 1
  IN  IF o = 10 THEN NullPtr
      ELSE IF o % 2 = 0 THEN <<"duty", i, k, m>> ELSE <<"slot", i, k, m>>

\* menu[x][y][z].itemPtr; boundProgram is the value of program when
\* setupMenu()/updateMenu() last bound menu[3][15..57]
itemPtr(x, y, z, boundProgram) ==
  IF z = 0 /\ x = 1 /\ y = 1 THEN <<"flag", "eepromReadFlag">>
  ELSE IF z = 0 /\ x = 1 /\ y = 2 THEN <<"flag", "eepromUpdateFlag">>
  ELSE IF z = 0 /\ x = 2 /\ y = 1 THEN <<"flag", "startInitializationFlag">>
  ELSE IF z = 0 /\ x = 2 /\ y = 2 THEN <<"flag", "stopInitializationFlag">>
  ELSE IF z = 0 /\ x = 2 /\ y = 3 THEN <<"int", "initSetActualPosMicrometer">>
  ELSE IF z = 0 /\ x = 2 /\ y = 4 THEN <<"int", "initStepperTargetPosMicrometer">>
  ELSE IF z = 0 /\ x = 2 /\ y = 5 THEN <<"int", "initStepper1TargetPosMicrometer">>
  ELSE IF z = 0 /\ x = 2 /\ y = 6 THEN <<"int", "initStepper2TargetPosMicrometer">>
  ELSE IF z = 0 /\ x = 2 /\ y = 7 THEN <<"int", "initStepper3TargetPosMicrometer">>
  ELSE IF z = 0 /\ x = 3 /\ y = 1 THEN <<"int", "program">>
  ELSE IF z = 0 /\ x = 3 /\ y = 2 THEN <<"mode", "isRunningToStartPos">>
  ELSE IF z = 0 /\ x = 3 /\ y = 3 THEN <<"flag", "startProgramFlag">>
  ELSE IF z = 0 /\ x = 3 /\ y = 4 THEN <<"flag", "stopProgramFlag">>
  ELSE IF z = 0 /\ x = 3 /\ y = 6 THEN <<"cfg", "stepperMicrometerPerHour">>
  ELSE IF z = 0 /\ x = 3 /\ y = 7 THEN <<"cfg", "stepperStartPosMicrometer">>
  ELSE IF z = 0 /\ x = 3 /\ y = 8 THEN <<"cfg", "stepperEndPosMicrometer">>
  ELSE IF z = 0 /\ x = 3 /\ y = 9 THEN <<"cfg", "timeAfterReachingEndPos">>
  ELSE IF z = 0 /\ x = 3 /\ y = 11 THEN <<"int", "totalDuration">>
  ELSE IF z = 0 /\ x = 3 /\ y = 12 THEN <<"int", "remainingTime">>
  ELSE IF z = 0 /\ x = 3 /\ y = 13 THEN <<"int", "stepperCurrentPosMicrometer">>
  ELSE IF z = 0 /\ x = 3 /\ y \in 15..57 THEN cellPtr(y - 15, boundProgram)
  ELSE IF x = 4 /\ y \in 1..NUMBER_OF_PROGRAMS /\ z \in 1..43 THEN cellPtr(z - 1, y)
  ELSE NullPtr

(***************************************************************************)
(* The duty and timeslot tables are kept in memory order: element          *)
(* [i][k][m] of an array [NUMBER_OF_DC_MOTORS + 1][NUMBER_OF_PROGRAMS + 1] *)
(* [NUMBER_OF_PROGRAM_SEGMENTS + 1] is element Flat(i, k, m).              *)
(***************************************************************************)
CellCount ==
  (NUMBER_OF_DC_MOTORS + 1) * (NUMBER_OF_PROGRAMS + 1) * (NUMBER_OF_PROGRAM_SEGMENTS + 1)

Flat(i, k, m) ==
  (i * (NUMBER_OF_PROGRAMS + 1) + k) * (NUMBER_OF_PROGRAM_SEGMENTS + 1) + m

FlatI(f) == f \div ((NUMBER_OF_PROGRAMS + 1) * (NUMBER_OF_PROGRAM_SEGMENTS + 1))
FlatK(f) == (f \div (NUMBER_OF_PROGRAM_SEGMENTS + 1)) % (NUMBER_OF_PROGRAMS + 1)
FlatM(f) == f % (NUMBER_OF_PROGRAM_SEGMENTS + 1)

Cells == 0..(CellCount - 1)
Motors == 1..NUMBER_OF_DC_MOTORS
Programs == 1..NUMBER_OF_PROGRAMS
Segments == 1..NUMBER_OF_PROGRAM_SEGMENTS
Axes == 1..3
Buttons == 1..4

\* dcDutyCycle[i][k][m], dcTimeslot[i][k][m]
Duty(s, i, k, m) == s.dcDutyCycle[Flat(i, k, m)]
Timeslot(s, i, k, m) == s.dcTimeslot[Flat(i, k, m)]

\* axis a of the three stepper1.., stepper2.., stepper3.. globals
CurrentPos(s, a) ==
  CASE a = 1 -> s.stepper1CurrentPosSteps
    [] a = 2 -> s.stepper2CurrentPosSteps
    [] a = 3 -> s.stepper3CurrentPosSteps

TargetPos(s, a) ==
  CASE a = 1 -> s.stepper1TargetPosSteps
    [] a = 2 -> s.stepper2TargetPosSteps
    [] a = 3 -> s.stepper3TargetPosSteps

InitAxisTarget(s, a) ==
  CASE a = 1 -> s.initStepper1TargetPosMicrometer
    [] a = 2 -> s.initStepper2TargetPosMicrometer
    [] a = 3 -> s.initStepper3TargetPosMicrometer

(***************************************************************************)
(* displayMessage: the text replaces what the display shows.  Its          *)
(* delay(2000) is time passing, which the action AdvanceTime models.       *)
(***************************************************************************)
displayMessage(s, text) == [s EXCEPT !.displayed = text]

(***************************************************************************)
(* Limits enforcer.                                                        *)
(***************************************************************************)
\* variant of ClampProgram without the line "if (program <= 0) program = 1"
ClampProgramNoLowerLimit(s) ==
  LET p == IF s.isInitializationRunning THEN 0 ELSE s.program
  IN  IF p > NUMBER_OF_PROGRAMS THEN NUMBER_OF_PROGRAMS ELSE p

\* lines 598-607: the active program index
ClampProgram(s) ==
  LET p == IF s.isInitializationRunning THEN 0
           ELSE IF s.program < 1 THEN 1 ELSE s.program
  IN  IF p > NUMBER_OF_PROGRAMS THEN NUMBER_OF_PROGRAMS ELSE p

\* variant of ClampDuty without the lower limit
ClampDutyNoLowerLimit(d) == IF d > DUTY_MAX THEN DUTY_MAX ELSE d

\* lines 611-616 on one int8_t cell
ClampDuty(d) ==
  LET d1 == IF d > DUTY_MAX THEN DUTY_MAX ELSE d
  IN  IF d1 < -DUTY_MAX THEN -DUTY_MAX ELSE d1

\* lines 617-622 on one uint16_t cell
ClampTimeslot(t) ==
  LET t1 == IF t < 0 THEN 0 ELSE t
  IN  IF t1 > TIMESLOT_MAX THEN TIMESLOT_MAX ELSE t1

InClampedRows(f) == FlatI(f) >= 1 /\ FlatK(f) >= 1 /\ FlatM(f) >= 1

\* lines 626-643 on eepromData
ClampConfig(e) ==
  LET feed == IF e.stepperMicrometerPerHour < 1 THEN 1 ELSE e.stepperMicrometerPerHour
      dw1 == IF e.timeAfterReachingEndPos > DWELL_MAX THEN DWELL_MAX
             ELSE e.timeAfterReachingEndPos
      dw2 == IF dw1 < 0 THEN 0 ELSE dw1
      start == IF e.stepperStartPosMicrometer < 0 THEN 0 ELSE e.stepperStartPosMicrometer
      end1 == IF e.stepperEndPosMicrometer > start THEN start ELSE e.stepperEndPosMicrometer
      end2 == IF end1 < 0 THEN 0 ELSE end1
  IN  [e EXCEPT !.stepperMicrometerPerHour = feed,
                !.timeAfterReachingEndPos = dw2,
                !.stepperStartPosMicrometer = start,
                !.stepperEndPosMicrometer = end2]

ensureValuesWithinLimits(s) ==
  [s EXCEPT
     !.program = ClampProgram(s),
     !.dcDutyCycle = [f \in Cells |-> IF InClampedRows(f) THEN ClampDuty(s.dcDutyCycle[f])
                                      ELSE s.dcDutyCycle[f]],
     !.dcTimeslot = [f \in Cells |-> IF InClampedRows(f) THEN ClampTimeslot(s.dcTimeslot[f])
                                     ELSE s.dcTimeslot[f]],
     !.eepromData = ClampConfig(s.eepromData)]

(***************************************************************************)
(* Mode coordinator.                                                       *)
(***************************************************************************)
\* variant of startInitialization that leaves the axis targets as they are
startInitializationKeepingTargets(s) ==
  IF s.isProgramRunning \/ s.isRunningToStartPos \/ s.isInitializationRunning
  THEN displayMessage(s, "rejected")
  ELSE displayMessage(
         [s EXCEPT !.stepper1CurrentPosSteps = 0,
                   !.stepper2CurrentPosSteps = 0,
                   !.stepper3CurrentPosSteps = 0,
                   !.initStepperCurrentPosMicrometer = 0,
                   !.initStepperTargetPosMicrometer = 0,
                   !.initStepper1TargetPosMicrometer = 0,
                   !.initStepper2TargetPosMicrometer = 0,
                   !.initStepper3TargetPosMicrometer = 0,
                   !.isInitializationRunning = TRUE,
                   !.program = 0],
         "Starting Initialization")

\* variant of startProgram without the test of isInitializationRunning
startProgramDuringInitialization(s) ==
  IF s.isProgramRunning
  THEN displayMessage(s, "Program already running!")
  ELSE IF s.isRunningToStartPos
  THEN displayMessage(s, "Still running to starting point!")
  ELSE displayMessage([s EXCEPT !.isProgramRunning = TRUE, !.startTime = s.millis],
                      "Starting Program")

\* variant of stopProgram that leaves dcCurrentCycle as it is
stopProgramKeepingDuty(s) ==
  IF ~s.isProgramRunning
  THEN displayMessage(s, "Program not started yet")
  ELSE displayMessage(
         [s EXCEPT !.dcIn1 = [i \in Motors |-> FALSE],
                   !.dcIn2 = [i \in Motors |-> FALSE],
                   !.elapsedTime = 0,
                   !.isProgramRunning = FALSE,
                   !.isRunningToStartPos = FALSE],
         "Program stopped")

runToStartPos(s) ==
  IF s.isInitializationRunning
  THEN displayMessage(s, "not possible due to running initialization")
  ELSE IF s.isProgramRunning
  THEN displayMessage(s, "not possible due to running program")
  ELSE displayMessage([s EXCEPT !.isRunningToStartPos = TRUE],
                      "Running to starting point")

startInitialization(s) ==
  IF s.isProgramRunning
  THEN displayMessage(s, "Not possible due to running program!")
  ELSE IF s.isRunningToStartPos
  THEN displayMessage(s, "Still running to starting point!")
  ELSE IF s.isInitializationRunning
  THEN displayMessage(s, "Initialization already running!")
  ELSE displayMessage(
         [s EXCEPT !.stepper1CurrentPosSteps = 0,
                   !.stepper2CurrentPosSteps = 0,
                   !.stepper3CurrentPosSteps = 0,
                   !.stepper1TargetPosSteps = 0,
                   !.stepper2TargetPosSteps = 0,
                   !.stepper3TargetPosSteps = 0,
                   !.initStepperCurrentPosMicrometer = 0,
                   !.initStepperTargetPosMicrometer = 0,
                   !.initStepper1TargetPosMicrometer = 0,
                   !.initStepper2TargetPosMicrometer = 0,
                   !.initStepper3TargetPosMicrometer = 0,
                   !.isInitializationRunning = TRUE,
                   !.program = 0],
         "Starting Initialization")

stopInitialization(s) ==
  IF ~s.isInitializationRunning
  THEN displayMessage(s, "Initialization not started yet!")
  ELSE LET actual == (s.initSetActualPosMicrometer * STEPS_PER_MICROMETER)
       IN  displayMessage(
             [s EXCEPT !.program = 1,
                       !.isInitializationRunning = FALSE,
                       !.initStepperCurrentPosMicrometer = 0,
                       !.initStepperTargetPosMicrometer = 0,
                       !.initStepper1TargetPosMicrometer = 0,
                       !.initStepper2TargetPosMicrometer = 0,
                       !.initStepper3TargetPosMicrometer = 0,
                       !.stepper1CurrentPosSteps = actual,
                       !.stepper2CurrentPosSteps = actual,
                       !.stepper3CurrentPosSteps = actual,
                       !.stepper1TargetPosSteps = actual,
                       !.stepper2TargetPosSteps = actual,
                       !.stepper3TargetPosSteps = actual],
             "Initialization finished")

startProgram(s) ==
  IF s.isInitializationRunning
  THEN displayMessage(s, "Not possible due to running initialization!")
  ELSE IF s.isProgramRunning
  THEN displayMessage(s, "Program already running!")
  ELSE IF s.isRunningToStartPos
  THEN displayMessage(s, "Still running to starting point!")
  ELSE displayMessage([s EXCEPT !.isProgramRunning = TRUE, !.startTime = s.millis],
                      "Starting Program")

stopProgram(s) ==
  IF ~s.isProgramRunning
  THEN displayMessage(s, "Program not started yet")
  ELSE displayMessage(
         [s EXCEPT !.dcCurrentCycle = [i \in Motors |-> 0],
                   !.dcIn1 = [i \in Motors |-> FALSE],
                   !.dcIn2 = [i \in Motors |-> FALSE],
                   !.elapsedTime = 0,
                   !.isProgramRunning = FALSE,
                   !.isRunningToStartPos = FALSE],
         "Program stopped")

(***************************************************************************)
(* Persistence.  eeprom is the content of the EEPROM; the wait for         *)
(* eeprom_is_ready() changes nothing but the display.                      *)
(***************************************************************************)
eepromRead(s) ==
  LET e == s.eeprom
      s1 == [s EXCEPT !.eepromData = e,
                      !.program = e.program,
                      !.stepper1CurrentPosSteps = e.stepper1CurrentPosSteps,
                      !.stepper2CurrentPosSteps = e.stepper2CurrentPosSteps,
                      !.stepper3CurrentPosSteps = e.stepper3CurrentPosSteps,
                      !.dcDutyCycle = e.dcDutyCycle,
                      !.dcTimeslot = e.dcTimeslot]
  IN  displayMessage(ensureValuesWithinLimits(s1), "Loading successful")

\* variant of eepromUpdate without the copy of dcTimeslot at line 1149
eepromUpdateWithoutTimeslots(s) ==
  LET s1 == ensureValuesWithinLimits(s)
      e == [s1.eepromData EXCEPT
              !.program = s1.program,
              !.stepper1CurrentPosSteps = s1.stepper1CurrentPosSteps,
              !.stepper2CurrentPosSteps = s1.stepper2CurrentPosSteps,
              !.stepper3CurrentPosSteps = s1.stepper3CurrentPosSteps,
              !.dcDutyCycle = s1.dcDutyCycle]
  IN  displayMessage([s1 EXCEPT !.eepromData = e, !.eeprom = e], "Saving successful")

eepromUpdate(s) ==
  LET s1 == ensureValuesWithinLimits(s)
      e == [s1.eepromData EXCEPT
              !.program = s1.program,
              !.stepper1CurrentPosSteps = s1.stepper1CurrentPosSteps,
              !.stepper2CurrentPosSteps = s1.stepper2CurrentPosSteps,
              !.stepper3CurrentPosSteps = s1.stepper3CurrentPosSteps,
              !.dcDutyCycle = s1.dcDutyCycle,
              !.dcTimeslot = s1.dcTimeslot]
  IN  displayMessage([s1 EXCEPT !.eepromData = e, !.eeprom = e], "Saving successful")

(***************************************************************************)
(* The Up and Down branches add to the object bound to an entry through    *)
(* itemPtr cast to a pointer to int, whatever the type of the object       *)
(* bound: a 4-byte little-endian                                           *)
(* read-modify-write at the address of the object (32-bit ARM).            *)
(*   - an int object takes the sum;                                        *)
(*   - an int8_t duty cell is the low byte of the word, the next three     *)
(*     bytes of the word are the next three cells in memory order;         *)
(*   - a uint16_t timeslot cell is the low half of the word, the high      *)
(*     half is the next cell in memory order;                              *)
(*   - a bool object is the low byte of the word.  A byte that ends as     *)
(*     neither 0 nor 1 is no valid bool: what a later test of it yields    *)
(*     is not defined, ub stands for that outcome;                         *)
(*   - bytes of the word that lie outside the object and outside its       *)
(*     array belong to whatever the linker placed there and are not part   *)
(*     of this model; a null itemPtr addresses no global of the sketch.    *)
(***************************************************************************)
RECURSIVE AddToDigits(_, _, _)
\* digits, least significant first, of (the number digits spell) + carry,
\* cut to Len(digits) digits
AddToDigits(digits, carry, base) ==
  IF digits = <<>> THEN <<>>
  ELSE LET sum == Head(digits) + carry
           low == sum % base
       IN  <<low>> \o AddToDigits(Tail(digits), (sum - low) \div base, base)

AddToDutyWord(arr, f, delta) ==
  LET byte(j) == IF f + j < CellCount THEN arr[f + j] % TwoTo8 ELSE 0
      sum == AddToDigits(<<byte(0), byte(1), byte(2), byte(3)>>, delta, TwoTo8)
  IN  [g \in Cells |->
         IF g >= f /\ g <= f + 3 THEN ToInt8(sum[g - f + 1]) ELSE arr[g]]

AddToTimeslotWord(arr, f, delta) ==
  LET half(j) == IF f + j < CellCount THEN arr[f + j] % TwoTo16 ELSE 0
      sum == AddToDigits(<<half(0), half(1)>>, delta, TwoTo16)
  IN  [g \in Cells |->
         IF g >= f /\ g <= f + 1 THEN ToUInt16(sum[g - f + 1]) ELSE arr[g]]

AddToBool(b, delta, ub) ==
  LET byte == ((IF b THEN 1 ELSE 0) + delta) % TwoTo8
  IN  IF byte = 0 THEN FALSE ELSE IF byte = 1 THEN TRUE ELSE ub

AddThroughItemPtr(s, ptr, delta, ub) ==
  CASE ptr[1] = "null" -> s
    [] ptr[1] = "flag" -> s
    [] ptr[1] = "mode" ->
         [s EXCEPT !.isRunningToStartPos = AddToBool(s.isRunningToStartPos, delta, ub)]
    [] ptr[1] = "int" -> [s EXCEPT ![ptr[2]] = (@ + delta)]
    [] ptr[1] = "cfg" -> [s EXCEPT !.eepromData[ptr[2]] = (@ + delta)]
    [] ptr[1] = "duty" ->
         [s EXCEPT !.dcDutyCycle = AddToDutyWord(@, Flat(ptr[2], ptr[3], ptr[4]), delta)]
    [] ptr[1] = "slot" ->
         [s EXCEPT !.dcTimeslot = AddToTimeslotWord(@, Flat(ptr[2], ptr[3], ptr[4]), delta)]

(***************************************************************************)
(* handleButtonPressEvent.                                                 *)
(***************************************************************************)
\* menu[menuCursor[1]][menuCursor[2]][0].itemPtr
Level2Ptr(s) == itemPtr(s.menuCursor[1], s.menuCursor[2], 0, s.menuProgram)

\* the entry the Up/Down branches and the read-only test address at s.level
EntryAtLevel(s) ==
  CASE s.level = 1 -> <<s.menuCursor[1], 0, 0>>
    [] s.level = 2 -> <<s.menuCursor[1], s.menuCursor[2], 0>>
    [] s.level = 3 -> <<s.menuCursor[1], s.menuCursor[2], s.menuCursor[3]>>

EntryPtr(s) ==
  LET e == EntryAtLevel(s) IN itemPtr(e[1], e[2], e[3], s.menuProgram)

\* lines 457-463
QuickStartStop(s) ==
  IF s.button1PressEvent /\ s.button4PressEvent
  THEN IF s.isProgramRunning THEN stopProgram(s) ELSE startProgram(s)
  ELSE s

\* variant of ExecDispatch without "button4PressEvent = true"
ExecDispatchWithoutBack(s) ==
  IF ~(s.button1PressEvent /\ s.isValueSelected) THEN s
  ELSE LET ptr == Level2Ptr(s)
       IN  CASE ptr = <<"flag", "eepromReadFlag">> -> eepromRead(s)
             [] ptr = <<"flag", "eepromUpdateFlag">> -> eepromUpdate(s)
             [] ptr = <<"flag", "startProgramFlag">> -> startProgram(s)
             [] ptr = <<"flag", "stopProgramFlag">> -> stopProgram(s)
             [] ptr = <<"flag", "startInitializationFlag">> -> startInitialization(s)
             [] ptr = <<"flag", "stopInitializationFlag">> -> stopInitialization(s)
             [] ptr = <<"mode", "isRunningToStartPos">> -> runToStartPos(s)
             [] OTHER -> s

\* lines 467-494: at most one of the seven tests matches, the bindings
\* being distinct objects
ExecDispatch(s) ==
  IF ~(s.button1PressEvent /\ s.isValueSelected) THEN s
  ELSE LET ptr == Level2Ptr(s)
           back(r) == [r EXCEPT !.button4PressEvent = TRUE]
       IN  CASE ptr = <<"flag", "eepromReadFlag">> -> back(eepromRead(s))
             [] ptr = <<"flag", "eepromUpdateFlag">> -> back(eepromUpdate(s))
             [] ptr = <<"flag", "startProgramFlag">> -> back(startProgram(s))
             [] ptr = <<"flag", "stopProgramFlag">> -> back(stopProgram(s))
             [] ptr = <<"flag", "startInitializationFlag">> -> back(startInitialization(s))
             [] ptr = <<"flag", "stopInitializationFlag">> -> back(stopInitialization(s))
             [] ptr = <<"mode", "isRunningToStartPos">> -> back(runToStartPos(s))
             [] OTHER -> s

\* variant of EnterBranch without the test of isReadOnly
EnterBranchOfAnyEntry(s) ==
  IF ~s.button1PressEvent THEN s
  ELSE LET c == s.menuCursor
           s1 == IF \/ s.level <= 1
                    \/ (s.level <= 2 /\ itemNamed(c[1], c[2], 1))
                 THEN [s EXCEPT !.level = s.level + 1]
                 ELSE [s EXCEPT !.isValueSelected = TRUE]
       IN  [s1 EXCEPT !.button1PressEvent = FALSE]

\* variant of EnterBranch without the test of the entry one level deeper in
\* line 500
EnterBranchWithoutChildTest(s) ==
  IF ~s.button1PressEvent THEN s
  ELSE LET e == EntryAtLevel(s)
           s1 == IF s.level <= 2
                 THEN [s EXCEPT !.level = s.level + 1]
                 ELSE IF ~isReadOnly(e[1], e[2], e[3])
                 THEN [s EXCEPT !.isValueSelected = TRUE]
                 ELSE s
       IN  [s1 EXCEPT !.button1PressEvent = FALSE]

\* lines 497-509.  menu[..].itemName != '\0' in the level-1 test compares
\* the array itself with 0 and is true for every entry.
EnterBranch(s) ==
  IF ~s.button1PressEvent THEN s
  ELSE LET c == s.menuCursor
           e == EntryAtLevel(s)
           s1 == IF \/ s.level <= 1
                    \/ (s.level <= 2 /\ itemNamed(c[1], c[2], 1))
                 THEN [s EXCEPT !.level = s.level + 1]
                 ELSE IF ~isReadOnly(e[1], e[2], e[3])
                 THEN [s EXCEPT !.isValueSelected = TRUE]
                 ELSE s
       IN  [s1 EXCEPT !.button1PressEvent = FALSE]

\* the step of an Up/Down edit of the entry under the cursor
EditStep(s) ==
  LET e == EntryAtLevel(s)
  IN  IF s.level >= 2 /\ isMinutes(e[1], e[2], e[3]) THEN MINUTE_INCREMENT ELSE 1

\* lines 513-540
UpBranch(s, ub) ==
  IF ~s.button2PressEvent THEN s
  ELSE LET s1 == IF ~s.isValueSelected
                 THEN IF s.menuCursor[s.level] >= 2
                      THEN [s EXCEPT !.menuCursor[s.level] = @ - 1]
                      ELSE s
                 ELSE AddThroughItemPtr(s, EntryPtr(s), EditStep(s), ub)
       IN  [s1 EXCEPT !.button2PressEvent = FALSE]

\* lines 544-577
DownBranch(s, ub) ==
  IF ~s.button3PressEvent THEN s
  ELSE LET c == s.menuCursor
           down == \/ s.level = 1 /\ c[1] <= MAX_ITEMS_LEVEL_1 - 1
                      /\ itemNamed(c[1] + 1, 0, 0)
                   \/ s.level = 2 /\ c[2] <= MAX_ITEMS_LEVEL_2 - 1
                      /\ itemNamed(c[1], c[2] + 1, 0)
                   \/ s.level = 3 /\ c[3] <= MAX_ITEMS_LEVEL_3 - 1
                      /\ itemNamed(c[1], c[2], c[3] + 1)
           s1 == IF ~s.isValueSelected
                 THEN IF down THEN [s EXCEPT !.menuCursor[s.level] = @ + 1] ELSE s
                 ELSE AddThroughItemPtr(s, EntryPtr(s), -EditStep(s), ub)
       IN  [s1 EXCEPT !.button3PressEvent = FALSE]

\* variant of BackBranch without "button4PressEvent = 0" of line 593
BackBranchKeepingFlag(s) ==
  IF ~s.button4PressEvent THEN s
  ELSE LET s1 == IF ~s.isValueSelected
                 THEN [s EXCEPT !.menuCursor[s.level] = 1,
                                !.lowerFrameBound[s.level] = 1,
                                !.upperFrameBound[s.level] = 4,
                                !.level = IF s.level >= 2 THEN s.level - 1 ELSE 1]
                 ELSE s
       IN  [s1 EXCEPT !.isValueSelected = FALSE]

\* variant of BackBranch without "menuCursor[level] = 1" of line 583
BackBranchKeepingCursor(s) ==
  IF ~s.button4PressEvent THEN s
  ELSE LET s1 == IF ~s.isValueSelected
                 THEN [s EXCEPT !.lowerFrameBound[s.level] = 1,
                                !.upperFrameBound[s.level] = 4,
                                !.level = IF s.level >= 2 THEN s.level - 1 ELSE 1]
                 ELSE s
       IN  [s1 EXCEPT !.isValueSelected = FALSE, !.button4PressEvent = FALSE]

\* lines 581-594.  lowerFrameBound and upperFrameBound are declared with
\* FRAME_ARRAY_SIZE elements and indexed by level.
BackBranch(s) ==
  IF ~s.button4PressEvent THEN s
  ELSE LET s1 == IF ~s.isValueSelected
                 THEN [s EXCEPT !.menuCursor[s.level] = 1,
                                !.lowerFrameBound[s.level] = 1,
                                !.upperFrameBound[s.level] = 4,
                                !.level = IF s.level >= 2 THEN s.level - 1 ELSE 1]
                 ELSE s
       IN  [s1 EXCEPT !.isValueSelected = FALSE, !.button4PressEvent = FALSE]

handleButtonPressEvent(s, ub) ==
  BackBranch(DownBranch(UpBranch(EnterBranch(ExecDispatch(QuickStartStop(s))), ub), ub))

\* lines 435-450: six replays of the Up, then of the Down handling
RECURSIVE ReplayPress(_, _, _, _)
ReplayPress(s, button, n, ub) ==
  IF n = 0 THEN s
  ELSE ReplayPress(handleButtonPressEvent([s EXCEPT ![button] = TRUE], ub),
                   button, n - 1, ub)

handleButtonLongPressEvent(s, ub) ==
  LET s1 == IF s.button2LongPressEvent
            THEN ReplayPress(s, "button2PressEvent", LONG_PRESS_REPEATS, ub)
            ELSE s
  IN  IF s1.button3LongPressEvent
      THEN ReplayPress(s1, "button3PressEvent", LONG_PRESS_REPEATS, ub)
      ELSE s1

(***************************************************************************)
(* The other functions loop() calls.                                       *)
(***************************************************************************)
updateInitActualPosition(s) ==
  IF s.isInitializationRunning THEN s
  ELSE LET s1 == [s EXCEPT !.initSetActualPosMicrometer =
                              CDiv(s.stepper1CurrentPosSteps, STEPS_PER_MICROMETER)]
       IN  IF /\ s.button2PressEvent \/ s.button3PressEvent
              /\ s.isValueSelected
              /\ Level2Ptr(s) = <<"int", "initSetActualPosMicrometer">>
           THEN displayMessage([s1 EXCEPT !.button2PressEvent = FALSE,
                                          !.button3PressEvent = FALSE],
                               "Initialization not started yet!")
           ELSE s1

AllAxesAtTarget(s) == \A a \in Axes : CurrentPos(s, a) = TargetPos(s, a)

stopRunToStartPosIfReached(s) ==
  IF s.isRunningToStartPos /\ AllAxesAtTarget(s)
  THEN displayMessage([s EXCEPT !.isRunningToStartPos = FALSE], "Starting point reached")
  ELSE s

\* StepperTimerInterrupt.update() arguments
FastPeriod == (1000000 \div 2) \div MAX_STEPS_PER_SECOND
ProgramPeriod(feed) ==
  CDiv(CDiv(((1000000 \div 2) * 60 * 60), feed), STEPS_PER_MICROMETER)

\* lines 674-691: the two while loops move the aggregate accumulator to the
\* aggregate target one unit at a time, the three offsets with it
SetInitTargets(s) ==
  IF ~s.isInitializationRunning THEN s
  ELSE LET d == s.initStepperTargetPosMicrometer - s.initStepperCurrentPosMicrometer
           t1 == (s.initStepper1TargetPosMicrometer + d)
           t2 == (s.initStepper2TargetPosMicrometer + d)
           t3 == (s.initStepper3TargetPosMicrometer + d)
       IN  [s EXCEPT !.stepperTimerPeriod = FastPeriod,
                     !.initStepper1TargetPosMicrometer = t1,
                     !.initStepper2TargetPosMicrometer = t2,
                     !.initStepper3TargetPosMicrometer = t3,
                     !.initStepperCurrentPosMicrometer = s.initStepperTargetPosMicrometer,
                     !.stepper1TargetPosSteps = (t1 * STEPS_PER_MICROMETER),
                     !.stepper2TargetPosSteps = (t2 * STEPS_PER_MICROMETER),
                     !.stepper3TargetPosSteps = (t3 * STEPS_PER_MICROMETER)]

\* lines 694-699
SetRunToStartTargets(s) ==
  IF ~s.isRunningToStartPos THEN s
  ELSE LET t == (s.eepromData.stepperStartPosMicrometer * STEPS_PER_MICROMETER)
       IN  [s EXCEPT !.stepperTimerPeriod = FastPeriod,
                     !.stepper1TargetPosSteps = t,
                     !.stepper2TargetPosSteps = t,
                     !.stepper3TargetPosSteps = t]

\* lines 702-707.  A feed rate of 0 cannot reach this point in loop(), the
\* limits enforcer having run; the period is kept then.
SetProgramTargets(s) ==
  IF ~s.isProgramRunning THEN s
  ELSE LET t == (s.eepromData.stepperEndPosMicrometer * STEPS_PER_MICROMETER)
           feed == s.eepromData.stepperMicrometerPerHour
       IN  [s EXCEPT !.stepperTimerPeriod = IF feed = 0 THEN @ ELSE ProgramPeriod(feed),
                     !.stepper1TargetPosSteps = t,
                     !.stepper2TargetPosSteps = t,
                     !.stepper3TargetPosSteps = t]

setStepperTargets(s) == SetProgramTargets(SetRunToStartTargets(SetInitTargets(s)))

(***************************************************************************)
(* Arithmetic of the 32-bit int of the target, on two 16-bit halves.  A    *)
(* product or sum outside the range of int is a signed overflow; the       *)
(* multiply, add and subtract instructions of the target deliver the low   *)
(* 32 bits of the result, which is what the build yields.                  *)
(***************************************************************************)
\* INT_MAX of the target
MaxInt == (TwoTo16 \div 2 - 1) * TwoTo16 + (TwoTo16 - 1)

\* the int with the halves hi and lo
Int32(hi, lo) ==
  IF hi >= TwoTo16 \div 2 THEN (hi - TwoTo16) * TwoTo16 + lo ELSE hi * TwoTo16 + lo

\* <<low half, high half>> of the int x
Halves(x) == <<x % TwoTo16, (x \div TwoTo16) % TwoTo16>>

\* x * k for 0 <= k < 2^15
MulInt(x, k) ==
  LET low == Halves(x)[1] * k
      high == Halves(x)[2] * k + low \div TwoTo16
  IN  Int32(high % TwoTo16, low % TwoTo16)

AddInt(x, y) ==
  LET low == Halves(x)[1] + Halves(y)[1]
      high == Halves(x)[2] + Halves(y)[2] + low \div TwoTo16
  IN  Int32(high % TwoTo16, low % TwoTo16)

SubInt(x, y) ==
  LET low == Halves(x)[1] - Halves(y)[1]
      high == Halves(x)[2] - Halves(y)[2] + low \div TwoTo16
  IN  Int32(high % TwoTo16, low % TwoTo16)

\* (millis() - startTime) / 1000 in unsigned long arithmetic.  millis and
\* startTime hold the 32 bits of the unsigned long, read as an int by this
\* model; the difference is taken modulo 2^32 and divided as the unsigned
\* number hi * 2^16 + lo.
ElapsedSeconds(s) ==
  LET d == Halves(SubInt(s.millis, s.startTime))
  IN  (d[2] \div 1000) * TwoTo16 + ((d[2] % 1000) * TwoTo16 + d[1]) \div 1000

\* the sum of the five timeslots of channel i in the active program
CycleLength(s, i) ==
  Timeslot(s, i, s.program, 1) + Timeslot(s, i, s.program, 2)
  + Timeslot(s, i, s.program, 3) + Timeslot(s, i, s.program, 4)
  + Timeslot(s, i, s.program, 5)

\* line 774.  With a cycle length of 0 the remainder is a division by zero:
\* the ARM divide instruction yields quotient 0, which leaves the dividend
\* as remainder, or the compiler folds the undefined operation to 0; ub
\* chooses.
DcTimer(s, i, ub) ==
  IF CycleLength(s, i) = 0
  THEN IF ub THEN (ElapsedSeconds(s)) ELSE 0
  ELSE (ElapsedSeconds(s) % CycleLength(s, i))

\* variant of SegmentTarget in which a segment ends before its boundary
SegmentTargetBeforeBoundary(s, i, t) ==
  LET ts(k) == Timeslot(s, i, s.program, k)
      dc(k) == Duty(s, i, s.program, k)
      b1 == ts(1)
      b2 == b1 + ts(2)
      b3 == b2 + ts(3)
      b4 == b3 + ts(4)
      v1 == IF t < b1 THEN dc(1) ELSE s.dcTargetCycle[i]
      v2 == IF t >= b1 /\ t < b2 THEN dc(2) ELSE v1
      v3 == IF t >= b2 /\ t < b3 THEN dc(3) ELSE v2
      v4 == IF t >= b3 /\ t < b4 THEN dc(4) ELSE v3
  IN  IF t >= b4 THEN dc(5) ELSE v4

\* lines 778-795 for channel i: the last matching test assigns
SegmentTarget(s, i, t) ==
  LET ts(k) == Timeslot(s, i, s.program, k)
      dc(k) == Duty(s, i, s.program, k)
      b1 == ts(1)
      b2 == b1 + ts(2)
      b3 == b2 + ts(3)
      b4 == b3 + ts(4)
      v1 == IF t <= b1 THEN dc(1) ELSE s.dcTargetCycle[i]
      v2 == IF t > b1 /\ t <= b2 THEN dc(2) ELSE v1
      v3 == IF t > b2 /\ t <= b3 THEN dc(3) ELSE v2
      v4 == IF t > b3 /\ t <= b4 THEN dc(4) ELSE v3
  IN  IF t > b4 THEN dc(5) ELSE v4

setDcTargets(s, ub) ==
  IF s.isProgramRunning /\ ~s.isInitializationRunning
  THEN [s EXCEPT !.dcTargetCycle = [i \in Motors |-> SegmentTarget(s, i, DcTimer(s, i, ub))]]
  ELSE s

\* analogWrite argument
PwmValue(cycle) == (Abs(cycle) * 255) \div 100

\* lines 830-837 for one channel: the value after the two tests
\* variant of Ramp without the step down
RampUpOnly(cur, tgt) == IF cur < tgt THEN cur + 1 ELSE cur

Ramp(cur, tgt) ==
  LET c1 == IF cur < tgt THEN cur + 1 ELSE cur
  IN  IF c1 > tgt THEN c1 - 1 ELSE c1

\* variant of runDcMotors without the test of isProgramRunning
runDcMotorsAlways(s) ==
  LET new == [i \in Motors |-> Ramp(s.dcCurrentCycle[i], s.dcTargetCycle[i])]
  IN  [s EXCEPT !.dcIn1 = [i \in Motors |-> s.dcCurrentCycle[i] >= 0],
                !.dcIn2 = [i \in Motors |-> s.dcCurrentCycle[i] < 0],
                !.dcCurrentCycle = new,
                !.dcPwm = [i \in Motors |->
                             IF s.dcCurrentCycle[i] # s.dcTargetCycle[i]
                             THEN PwmValue(new[i]) ELSE s.dcPwm[i]]]

runDcMotors(s) ==
  IF ~s.isProgramRunning THEN s
  ELSE LET new == [i \in Motors |-> Ramp(s.dcCurrentCycle[i], s.dcTargetCycle[i])]
       IN  [s EXCEPT !.dcIn1 = [i \in Motors |-> s.dcCurrentCycle[i] >= 0],
                     !.dcIn2 = [i \in Motors |-> s.dcCurrentCycle[i] < 0],
                     !.dcCurrentCycle = new,
                     !.dcPwm = [i \in Motors |->
                                  IF s.dcCurrentCycle[i] # s.dcTargetCycle[i]
                                  THEN PwmValue(new[i]) ELSE s.dcPwm[i]]]

\* lines 865-872.  A feed rate of 0 cannot reach this point in loop(), the
\* limits enforcer having run; totalDuration is kept then.
calculateRemainingTime(s) ==
  LET e == s.eepromData
      distance == SubInt(e.stepperStartPosMicrometer, e.stepperEndPosMicrometer)
      total == IF e.stepperMicrometerPerHour = 0 THEN s.totalDuration
               ELSE AddInt(CDiv(MulInt(distance, 3600), e.stepperMicrometerPerHour),
                           e.timeAfterReachingEndPos)
      elapsed == IF s.isProgramRunning THEN (ElapsedSeconds(s)) ELSE s.elapsedTime
  IN  [s EXCEPT !.totalDuration = total,
                !.elapsedTime = elapsed,
                !.remainingTime = SubInt(total, elapsed)]

stopProgramIfTimeIsUp(s) ==
  IF s.isProgramRunning /\ s.remainingTime <= 0 THEN stopProgram(s) ELSE s

\* menu[3][15..57] are bound again to the cells of the active program
updateMenu(s) ==
  [s EXCEPT !.stepperCurrentPosMicrometer =
               CDiv(s.stepper1CurrentPosSteps, STEPS_PER_MICROMETER),
            !.menuProgram = s.program]

setDisplayFrameBoundaries(s) ==
  LET c == s.menuCursor[s.level]
      s1 == IF c < s.lowerFrameBound[s.level]
            THEN [s EXCEPT !.lowerFrameBound[s.level] = c,
                           !.upperFrameBound[s.level] = c + 3]
            ELSE s
  IN  IF c > s1.upperFrameBound[s.level]
      THEN [s1 EXCEPT !.lowerFrameBound[s.level] = c - 3,
                      !.upperFrameBound[s.level] = c]
      ELSE s1

\* the menu frame replaces what the display shows
displayMenu(s) == [s EXCEPT !.displayed = "menu"]

(***************************************************************************)
(* interruptRunStepperMotors.  tickWrites lists the digitalWrite calls of  *)
(* the latest firing: <<"DIR", level>> and <<"STEP", axis, level>>.        *)
(***************************************************************************)
SetCurrentPos(s, a, v) ==
  CASE a = 1 -> [s EXCEPT !.stepper1CurrentPosSteps = v]
    [] a = 2 -> [s EXCEPT !.stepper2CurrentPosSteps = v]
    [] a = 3 -> [s EXCEPT !.stepper3CurrentPosSteps = v]

PhaseValue(s) == IF s.interruptState THEN 1 ELSE 0

\* variant of ServiceCw without "isStepperBlockedCcw = true"
ServiceCwWithoutBlock(s, a) ==
  IF CurrentPos(s, a) < TargetPos(s, a)
  THEN [SetCurrentPos(s, a, (CurrentPos(s, a) + PhaseValue(s))) EXCEPT
          !.driver123Dir = TRUE,
          !.driverStep[a] = s.interruptState,
          !.tickWrites = @ \o << <<"DIR", TRUE>>, <<"STEP", a, s.interruptState>> >>]
  ELSE s

\* lines 719-724 for axis a
ServiceCw(s, a) ==
  IF CurrentPos(s, a) < TargetPos(s, a)
  THEN [SetCurrentPos(s, a, (CurrentPos(s, a) + PhaseValue(s))) EXCEPT
          !.driver123Dir = TRUE,
          !.driverStep[a] = s.interruptState,
          !.isStepperBlockedCcw = TRUE,
          !.tickWrites = @ \o << <<"DIR", TRUE>>, <<"STEP", a, s.interruptState>> >>]
  ELSE s

\* lines 741-746 for axis a
ServiceCcw(s, a) ==
  IF CurrentPos(s, a) > TargetPos(s, a)
  THEN [SetCurrentPos(s, a, (CurrentPos(s, a) - PhaseValue(s))) EXCEPT
          !.driver123Dir = FALSE,
          !.driverStep[a] = s.interruptState,
          !.isStepperBlockedCw = TRUE,
          !.tickWrites = @ \o << <<"DIR", FALSE>>, <<"STEP", a, s.interruptState>> >>]
  ELSE s

\* variant of AnyModeActive: the stepper interrupt without the test of line 717
AlwaysActive(s) == s.interruptState \/ ~s.interruptState

AnyModeActive(s) ==
  s.isProgramRunning \/ s.isRunningToStartPos \/ s.isInitializationRunning

\* variant of interruptRunStepperMotors without "isStepperBlockedCw = false"
\* of line 738
interruptRunStepperMotorsKeepingCwBlock(s) ==
  LET s0 == [s EXCEPT !.interruptState = ~s.interruptState,
                      !.isStepperBlockedCcw = FALSE,
                      !.tickWrites = << >>]
  IN  IF ~AnyModeActive(s0) THEN s0
      ELSE LET s1 == IF ~s0.isStepperBlockedCw
                     THEN ServiceCw(ServiceCw(ServiceCw(s0, 1), 2), 3)
                     ELSE s0
           IN  IF ~s1.isStepperBlockedCcw
               THEN ServiceCcw(ServiceCcw(ServiceCcw(s1, 1), 2), 3)
               ELSE s1

interruptRunStepperMotors(s) ==
  LET s0 == [s EXCEPT !.interruptState = ~s.interruptState,
                      !.isStepperBlockedCcw = FALSE,
                      !.tickWrites = << >>]
  IN  IF ~AnyModeActive(s0) THEN s0
      ELSE LET s1 == IF ~s0.isStepperBlockedCw
                     THEN ServiceCw(ServiceCw(ServiceCw(s0, 1), 2), 3)
                     ELSE s0
               s2 == [s1 EXCEPT !.isStepperBlockedCw = FALSE]
           IN  IF ~s2.isStepperBlockedCcw
               THEN ServiceCcw(ServiceCcw(ServiceCcw(s2, 1), 2), 3)
               ELSE s2

(***************************************************************************)
(* interruptButtonPressDetection, for one button.  b holds the button's    *)
(* debounce globals: state, last (LastReading), count (SameReadingCount)   *)
(* and its event flags press and long; reading is digitalRead (TRUE is     *)
(* HIGH, the released level of a pulled-up input).                         *)
(***************************************************************************)
CountReading(b, reading) ==
  [b EXCEPT !.count = IF reading = b.last THEN b.count + 1 ELSE 0,
            !.last = reading]

\* the accepted-level block shared by all four buttons (lines 343-352)
AcceptLevel(b, reading) ==
  IF reading THEN [b EXCEPT !.state = FALSE]
  ELSE [b EXCEPT !.press = IF ~b.state THEN TRUE ELSE b.press, !.state = TRUE]

\* variant of ButtonTickPlain without the test of buttonNState at line 347
ButtonTickPlainOnEveryTick(b, reading) ==
  LET b1 == CountReading(b, reading)
  IN  IF b1.count >= BUTTON_CHANGECOUNT
      THEN [b1 EXCEPT !.press = IF reading THEN b1.press ELSE TRUE, !.state = ~reading]
      ELSE b1

\* variant of ButtonTickRepeat without the else branch of lines 378-380
ButtonTickRepeatLatchingLong(b, reading) ==
  LET b1 == CountReading(b, reading)
  IN  IF b1.count >= BUTTON_CHANGECOUNT /\ b1.count <= AUTOREPEAT_COUNT
      THEN AcceptLevel(b1, reading)
      ELSE IF b1.count > AUTOREPEAT_COUNT /\ b1.count <= LONG_PRESS_COUNT /\ ~reading
      THEN [b1 EXCEPT !.press = TRUE]
      ELSE IF b1.count > LONG_PRESS_COUNT /\ ~reading
      THEN [b1 EXCEPT !.long = TRUE]
      ELSE b1

\* buttons 1 (Enter) and 4 (Back)
ButtonTickPlain(b, reading) ==
  LET b1 == CountReading(b, reading)
  IN  IF b1.count >= BUTTON_CHANGECOUNT THEN AcceptLevel(b1, reading) ELSE b1

\* buttons 2 (Up) and 3 (Down)
ButtonTickRepeat(b, reading) ==
  LET b1 == CountReading(b, reading)
  IN  IF b1.count >= BUTTON_CHANGECOUNT /\ b1.count <= AUTOREPEAT_COUNT
      THEN AcceptLevel(b1, reading)
      ELSE IF b1.count > AUTOREPEAT_COUNT /\ b1.count <= LONG_PRESS_COUNT /\ ~reading
      THEN [b1 EXCEPT !.press = TRUE]
      ELSE IF b1.count > LONG_PRESS_COUNT /\ ~reading
      THEN [b1 EXCEPT !.long = TRUE]
      ELSE [b1 EXCEPT !.long = FALSE]

\* the debounce globals and the event flags of button n as one record
ButtonOf(s, n) ==
  [state |-> s.debounce[n].state,
   last |-> s.debounce[n].last,
   count |-> s.debounce[n].count,
   press |-> CASE n = 1 -> s.button1PressEvent
               [] n = 2 -> s.button2PressEvent
               [] n = 3 -> s.button3PressEvent
               [] n = 4 -> s.button4PressEvent,
   long |-> CASE n = 2 -> s.button2LongPressEvent
              [] n = 3 -> s.button3LongPressEvent
              [] OTHER -> FALSE]

\* lines 330-433: the four buttons in turn, readings[n] being
\* digitalRead(BUTTONn)
interruptButtonPressDetection(s, readings) ==
  LET b1 == ButtonTickPlain(ButtonOf(s, 1), readings[1])
      b2 == ButtonTickRepeat(ButtonOf(s, 2), readings[2])
      b3 == ButtonTickRepeat(ButtonOf(s, 3), readings[3])
      b4 == ButtonTickPlain(ButtonOf(s, 4), readings[4])
      b == <<b1, b2, b3, b4>>
  IN  [s EXCEPT !.debounce = [n \in Buttons |->
                                [state |-> b[n].state, last |-> b[n].last,
                                 count |-> b[n].count]],
                !.button1PressEvent = b1.press,
                !.button2PressEvent = b2.press,
                !.button3PressEvent = b3.press,
                !.button4PressEvent = b4.press,
                !.button2LongPressEvent = b2.long,
                !.button3LongPressEvent = b3.long]

(***************************************************************************)
(* State: one variable per global of the sketch, the output pins, the      *)
(* display, the EEPROM content, millis(), and pc, the function loop()      *)
(* calls next.                                                             *)
(*   menuProgram      the program index menu[3][15..57].itemPtr are bound  *)
(*                    with (setupMenu, updateMenu)                         *)
(*   lowerFrameBound, upperFrameBound                                      *)
(*                    indexed by level 1..3; the arrays are declared with  *)
(*                    FRAME_ARRAY_SIZE elements, so element 3 lies behind  *)
(*                    the array; it is kept as a storage cell of its own   *)
(*   driver123Dir, driverStep, dcIn1, dcIn2, dcPwm                         *)
(*                    levels last written to the stepper and DC pins       *)
(*                    (channel 1, 2 are driver 5 A, B; 3, 4 driver 4 A, B) *)
(*   debounce         for button n the globals buttonNState (state),        *)
(*                    buttonNLastReading (last) and                         *)
(*                    buttonNSameReadingCount (count); TRUE is HIGH.  They  *)
(*                    are followed tick by tick in SpecButtons; elsewhere   *)
(*                    the button interrupt is taken by its outcomes         *)
(***************************************************************************)
VARIABLES
  level, menuCursor, lowerFrameBound, upperFrameBound, isValueSelected,
  menuProgram, button1PressEvent, button2PressEvent, button3PressEvent,
  button4PressEvent, button2LongPressEvent, button3LongPressEvent,
  isProgramRunning, isInitializationRunning, isRunningToStartPos, startTime,
  elapsedTime, remainingTime, totalDuration, eepromData, dcDutyCycle,
  dcTimeslot, program, stepper1CurrentPosSteps, stepper2CurrentPosSteps,
  stepper3CurrentPosSteps, stepper1TargetPosSteps, stepper2TargetPosSteps,
  stepper3TargetPosSteps, interruptState, isStepperBlockedCw,
  isStepperBlockedCcw, stepperCurrentPosMicrometer,
  initStepperCurrentPosMicrometer, initSetActualPosMicrometer,
  initStepperTargetPosMicrometer, initStepper1TargetPosMicrometer,
  initStepper2TargetPosMicrometer, initStepper3TargetPosMicrometer,
  dcCurrentCycle, dcTargetCycle, driver123Dir, driverStep, dcIn1, dcIn2,
  dcPwm, stepperTimerPeriod, tickWrites, displayed, eeprom, millis, debounce,
  pc

globals ==
  <<level, menuCursor, lowerFrameBound, upperFrameBound, isValueSelected,
    menuProgram, button1PressEvent, button2PressEvent, button3PressEvent,
    button4PressEvent, button2LongPressEvent, button3LongPressEvent,
    isProgramRunning, isInitializationRunning, isRunningToStartPos,
    startTime, elapsedTime, remainingTime, totalDuration, eepromData,
    dcDutyCycle, dcTimeslot, program, stepper1CurrentPosSteps,
    stepper2CurrentPosSteps, stepper3CurrentPosSteps,
    stepper1TargetPosSteps, stepper2TargetPosSteps, stepper3TargetPosSteps,
    interruptState, isStepperBlockedCw, isStepperBlockedCcw,
    stepperCurrentPosMicrometer, initStepperCurrentPosMicrometer,
    initSetActualPosMicrometer, initStepperTargetPosMicrometer,
    initStepper1TargetPosMicrometer, initStepper2TargetPosMicrometer,
    initStepper3TargetPosMicrometer, dcCurrentCycle, dcTargetCycle,
    driver123Dir, driverStep, dcIn1, dcIn2, dcPwm, stepperTimerPeriod,
    tickWrites, displayed, eeprom, millis, debounce>>

vars == <<globals, pc>>

\* the globals as the record the operators above work on
State ==
  [level |-> level,
   menuCursor |-> menuCursor,
   lowerFrameBound |-> lowerFrameBound,
   upperFrameBound |-> upperFrameBound,
   isValueSelected |-> isValueSelected,
   menuProgram |-> menuProgram,
   button1PressEvent |-> button1PressEvent,
   button2PressEvent |-> button2PressEvent,
   button3PressEvent |-> button3PressEvent,
   button4PressEvent |-> button4PressEvent,
   button2LongPressEvent |-> button2LongPressEvent,
   button3LongPressEvent |-> button3LongPressEvent,
   isProgramRunning |-> isProgramRunning,
   isInitializationRunning |-> isInitializationRunning,
   isRunningToStartPos |-> isRunningToStartPos,
   startTime |-> startTime,
   elapsedTime |-> elapsedTime,
   remainingTime |-> remainingTime,
   totalDuration |-> totalDuration,
   eepromData |-> eepromData,
   dcDutyCycle |-> dcDutyCycle,
   dcTimeslot |-> dcTimeslot,
   program |-> program,
   stepper1CurrentPosSteps |-> stepper1CurrentPosSteps,
   stepper2CurrentPosSteps |-> stepper2CurrentPosSteps,
   stepper3CurrentPosSteps |-> stepper3CurrentPosSteps,
   stepper1TargetPosSteps |-> stepper1TargetPosSteps,
   stepper2TargetPosSteps |-> stepper2TargetPosSteps,
   stepper3TargetPosSteps |-> stepper3TargetPosSteps,
   interruptState |-> interruptState,
   isStepperBlockedCw |-> isStepperBlockedCw,
   isStepperBlockedCcw |-> isStepperBlockedCcw,
   stepperCurrentPosMicrometer |-> stepperCurrentPosMicrometer,
   initStepperCurrentPosMicrometer |-> initStepperCurrentPosMicrometer,
   initSetActualPosMicrometer |-> initSetActualPosMicrometer,
   initStepperTargetPosMicrometer |-> initStepperTargetPosMicrometer,
   initStepper1TargetPosMicrometer |-> initStepper1TargetPosMicrometer,
   initStepper2TargetPosMicrometer |-> initStepper2TargetPosMicrometer,
   initStepper3TargetPosMicrometer |-> initStepper3TargetPosMicrometer,
   dcCurrentCycle |-> dcCurrentCycle,
   dcTargetCycle |-> dcTargetCycle,
   driver123Dir |-> driver123Dir,
   driverStep |-> driverStep,
   dcIn1 |-> dcIn1,
   dcIn2 |-> dcIn2,
   dcPwm |-> dcPwm,
   stepperTimerPeriod |-> stepperTimerPeriod,
   tickWrites |-> tickWrites,
   displayed |-> displayed,
   eeprom |-> eeprom,
   millis |-> millis,
   debounce |-> debounce]

Commit(r) ==
  /\ level' = r.level
  /\ menuCursor' = r.menuCursor
  /\ lowerFrameBound' = r.lowerFrameBound
  /\ upperFrameBound' = r.upperFrameBound
  /\ isValueSelected' = r.isValueSelected
  /\ menuProgram' = r.menuProgram
  /\ button1PressEvent' = r.button1PressEvent
  /\ button2PressEvent' = r.button2PressEvent
  /\ button3PressEvent' = r.button3PressEvent
  /\ button4PressEvent' = r.button4PressEvent
  /\ button2LongPressEvent' = r.button2LongPressEvent
  /\ button3LongPressEvent' = r.button3LongPressEvent
  /\ isProgramRunning' = r.isProgramRunning
  /\ isInitializationRunning' = r.isInitializationRunning
  /\ isRunningToStartPos' = r.isRunningToStartPos
  /\ startTime' = r.startTime
  /\ elapsedTime' = r.elapsedTime
  /\ remainingTime' = r.remainingTime
  /\ totalDuration' = r.totalDuration
  /\ eepromData' = r.eepromData
  /\ dcDutyCycle' = r.dcDutyCycle
  /\ dcTimeslot' = r.dcTimeslot
  /\ program' = r.program
  /\ stepper1CurrentPosSteps' = r.stepper1CurrentPosSteps
  /\ stepper2CurrentPosSteps' = r.stepper2CurrentPosSteps
  /\ stepper3CurrentPosSteps' = r.stepper3CurrentPosSteps
  /\ stepper1TargetPosSteps' = r.stepper1TargetPosSteps
  /\ stepper2TargetPosSteps' = r.stepper2TargetPosSteps
  /\ stepper3TargetPosSteps' = r.stepper3TargetPosSteps
  /\ interruptState' = r.interruptState
  /\ isStepperBlockedCw' = r.isStepperBlockedCw
  /\ isStepperBlockedCcw' = r.isStepperBlockedCcw
  /\ stepperCurrentPosMicrometer' = r.stepperCurrentPosMicrometer
  /\ initStepperCurrentPosMicrometer' = r.initStepperCurrentPosMicrometer
  /\ initSetActualPosMicrometer' = r.initSetActualPosMicrometer
  /\ initStepperTargetPosMicrometer' = r.initStepperTargetPosMicrometer
  /\ initStepper1TargetPosMicrometer' = r.initStepper1TargetPosMicrometer
  /\ initStepper2TargetPosMicrometer' = r.initStepper2TargetPosMicrometer
  /\ initStepper3TargetPosMicrometer' = r.initStepper3TargetPosMicrometer
  /\ dcCurrentCycle' = r.dcCurrentCycle
  /\ dcTargetCycle' = r.dcTargetCycle
  /\ driver123Dir' = r.driver123Dir
  /\ driverStep' = r.driverStep
  /\ dcIn1' = r.dcIn1
  /\ dcIn2' = r.dcIn2
  /\ dcPwm' = r.dcPwm
  /\ stepperTimerPeriod' = r.stepperTimerPeriod
  /\ tickWrites' = r.tickWrites
  /\ displayed' = r.displayed
  /\ eeprom' = r.eeprom
  /\ millis' = r.millis
  /\ debounce' = r.debounce

AssignGlobals(r) ==
  /\ level = r.level
  /\ menuCursor = r.menuCursor
  /\ lowerFrameBound = r.lowerFrameBound
  /\ upperFrameBound = r.upperFrameBound
  /\ isValueSelected = r.isValueSelected
  /\ menuProgram = r.menuProgram
  /\ button1PressEvent = r.button1PressEvent
  /\ button2PressEvent = r.button2PressEvent
  /\ button3PressEvent = r.button3PressEvent
  /\ button4PressEvent = r.button4PressEvent
  /\ button2LongPressEvent = r.button2LongPressEvent
  /\ button3LongPressEvent = r.button3LongPressEvent
  /\ isProgramRunning = r.isProgramRunning
  /\ isInitializationRunning = r.isInitializationRunning
  /\ isRunningToStartPos = r.isRunningToStartPos
  /\ startTime = r.startTime
  /\ elapsedTime = r.elapsedTime
  /\ remainingTime = r.remainingTime
  /\ totalDuration = r.totalDuration
  /\ eepromData = r.eepromData
  /\ dcDutyCycle = r.dcDutyCycle
  /\ dcTimeslot = r.dcTimeslot
  /\ program = r.program
  /\ stepper1CurrentPosSteps = r.stepper1CurrentPosSteps
  /\ stepper2CurrentPosSteps = r.stepper2CurrentPosSteps
  /\ stepper3CurrentPosSteps = r.stepper3CurrentPosSteps
  /\ stepper1TargetPosSteps = r.stepper1TargetPosSteps
  /\ stepper2TargetPosSteps = r.stepper2TargetPosSteps
  /\ stepper3TargetPosSteps = r.stepper3TargetPosSteps
  /\ interruptState = r.interruptState
  /\ isStepperBlockedCw = r.isStepperBlockedCw
  /\ isStepperBlockedCcw = r.isStepperBlockedCcw
  /\ stepperCurrentPosMicrometer = r.stepperCurrentPosMicrometer
  /\ initStepperCurrentPosMicrometer = r.initStepperCurrentPosMicrometer
  /\ initSetActualPosMicrometer = r.initSetActualPosMicrometer
  /\ initStepperTargetPosMicrometer = r.initStepperTargetPosMicrometer
  /\ initStepper1TargetPosMicrometer = r.initStepper1TargetPosMicrometer
  /\ initStepper2TargetPosMicrometer = r.initStepper2TargetPosMicrometer
  /\ initStepper3TargetPosMicrometer = r.initStepper3TargetPosMicrometer
  /\ dcCurrentCycle = r.dcCurrentCycle
  /\ dcTargetCycle = r.dcTargetCycle
  /\ driver123Dir = r.driver123Dir
  /\ driverStep = r.driverStep
  /\ dcIn1 = r.dcIn1
  /\ dcIn2 = r.dcIn2
  /\ dcPwm = r.dcPwm
  /\ stepperTimerPeriod = r.stepperTimerPeriod
  /\ tickWrites = r.tickWrites
  /\ displayed = r.displayed
  /\ eeprom = r.eeprom
  /\ millis = r.millis
  /\ debounce = r.debounce

(***************************************************************************)
(* EEPROM contents the machine is switched on with.                        *)
(***************************************************************************)
\* a never written EEPROM: every byte 0xFF
ErasedImage ==
  [stepperMicrometerPerHour |-> -1,
   stepperStartPosMicrometer |-> -1,
   stepperEndPosMicrometer |-> -1,
   timeAfterReachingEndPos |-> -1,
   dcDutyCycle |-> [f \in Cells |-> -1],
   dcTimeslot |-> [f \in Cells |-> TwoTo16 - 1],
   program |-> -1,
   stepper1CurrentPosSteps |-> -1,
   stepper2CurrentPosSteps |-> -1,
   stepper3CurrentPosSteps |-> -1]

\* a record an earlier eepromUpdate() wrote: feed 1 um/h, start and end
\* position 0 um, one minute at the end position, program 1, DC 1 at duty 1
\* for a 1 s segment A in every program, the axes at the start position
SavedImage ==
  [stepperMicrometerPerHour |-> 1,
   stepperStartPosMicrometer |-> 0,
   stepperEndPosMicrometer |-> 0,
   timeAfterReachingEndPos |-> MINUTE_INCREMENT,
   dcDutyCycle |-> [f \in Cells |->
                      IF FlatI(f) = 1 /\ FlatK(f) >= 1 /\ FlatM(f) = 1 THEN 1 ELSE 0],
   dcTimeslot |-> [f \in Cells |->
                     IF FlatI(f) = 1 /\ FlatK(f) >= 1 /\ FlatM(f) = 1 THEN 1 ELSE 0],
   program |-> 1,
   stepper1CurrentPosSteps |-> 0,
   stepper2CurrentPosSteps |-> 0,
   stepper3CurrentPosSteps |-> 0]

EepromImages == {SavedImage}

\* the zero-initialised savedData eepromData = {0}
ZeroData ==
  [stepperMicrometerPerHour |-> 0,
   stepperStartPosMicrometer |-> 0,
   stepperEndPosMicrometer |-> 0,
   timeAfterReachingEndPos |-> 0,
   dcDutyCycle |-> [f \in Cells |-> 0],
   dcTimeslot |-> [f \in Cells |-> 0],
   program |-> 0,
   stepper1CurrentPosSteps |-> 0,
   stepper2CurrentPosSteps |-> 0,
   stepper3CurrentPosSteps |-> 0]

\* what the two cells behind lowerFrameBound and upperFrameBound hold at
\* start: <<lowerFrameBound[3], upperFrameBound[3]>>
FrameOverrunInit == {<<4, 0>>}

\* the globals as their initialisers set them (lines 106-214)
InitialGlobals(image, overrun) ==
  [level |-> 1,
   menuCursor |-> [l \in 1..NUMBER_OF_MENU_LEVELS |-> 1],
   lowerFrameBound |-> [l \in 1..NUMBER_OF_MENU_LEVELS |->
                          IF l < FRAME_ARRAY_SIZE THEN 1 ELSE overrun[1]],
   upperFrameBound |-> [l \in 1..NUMBER_OF_MENU_LEVELS |->
                          IF l < FRAME_ARRAY_SIZE THEN 4 ELSE overrun[2]],
   isValueSelected |-> FALSE,
   menuProgram |-> 1,
   button1PressEvent |-> FALSE,
   button2PressEvent |-> FALSE,
   button3PressEvent |-> FALSE,
   button4PressEvent |-> FALSE,
   button2LongPressEvent |-> FALSE,
   button3LongPressEvent |-> FALSE,
   isProgramRunning |-> FALSE,
   isInitializationRunning |-> FALSE,
   isRunningToStartPos |-> FALSE,
   startTime |-> 0,
   elapsedTime |-> 0,
   remainingTime |-> 0,
   totalDuration |-> 0,
   eepromData |-> ZeroData,
   dcDutyCycle |-> [f \in Cells |-> 0],
   dcTimeslot |-> [f \in Cells |-> 0],
   program |-> 1,
   stepper1CurrentPosSteps |-> 0,
   stepper2CurrentPosSteps |-> 0,
   stepper3CurrentPosSteps |-> 0,
   stepper1TargetPosSteps |-> 0,
   stepper2TargetPosSteps |-> 0,
   stepper3TargetPosSteps |-> 0,
   interruptState |-> FALSE,
   isStepperBlockedCw |-> FALSE,
   isStepperBlockedCcw |-> FALSE,
   stepperCurrentPosMicrometer |-> 0,
   initStepperCurrentPosMicrometer |-> 0,
   initSetActualPosMicrometer |-> 0,
   initStepperTargetPosMicrometer |-> 0,
   initStepper1TargetPosMicrometer |-> 0,
   initStepper2TargetPosMicrometer |-> 0,
   initStepper3TargetPosMicrometer |-> 0,
   dcCurrentCycle |-> [i \in Motors |-> 0],
   dcTargetCycle |-> [i \in Motors |-> 0],
   driver123Dir |-> FALSE,
   driverStep |-> [a \in Axes |-> FALSE],
   dcIn1 |-> [i \in Motors |-> FALSE],
   dcIn2 |-> [i \in Motors |-> FALSE],
   dcPwm |-> [i \in Motors |-> 0],
   stepperTimerPeriod |-> 1000000,
   tickWrites |-> << >>,
   displayed |-> "",
   eeprom |-> image,
   millis |-> 0,
   debounce |-> [n \in Buttons |-> [state |-> FALSE, last |-> TRUE, count |-> 0]]]

\* setupMenu binds menu[3][15..57] with the program index of that moment
setupMenu(s) == [s EXCEPT !.menuProgram = s.program]

\* setup(), lines 246-249
setup(s) == setupMenu(ensureValuesWithinLimits(eepromRead(s)))

\* the functions loop() calls, in order
LoopOrder ==
  <<"handleButtonLongPressEvent", "handleButtonPressEvent", "ensureValuesWithinLimits",
    "updateInitActualPosition", "stopRunToStartPosIfReached", "setStepperTargets",
    "setDcTargets", "runDcMotors", "calculateRemainingTime", "stopProgramIfTimeIsUp",
    "updateMenu", "setDisplayFrameBoundaries", "displayMenu">>

PcIndex(name) == CHOOSE n \in 1..Len(LoopOrder) : LoopOrder[n] = name
NextCall(name) == LoopOrder[(PcIndex(name) % Len(LoopOrder)) + 1]

Init ==
  /\ \E image \in EepromImages, overrun \in FrameOverrunInit :
       AssignGlobals(setup(InitialGlobals(image, overrun)))
  /\ pc = LoopOrder[1]


(***************************************************************************)
(* The operator, as far as this model follows them.  The model follows     *)
(* button input that keeps the cursors within MaxCursor entries and the    *)
(* micrometer-valued fields within 0..MaxMicrometer, and in which the      *)
(* duty and timeslot cells change by a load only (edits of the cells are   *)
(* the subject of SpecLimits).                                             *)
(***************************************************************************)
Kept(old, new, lo, hi) == IF new = old THEN TRUE ELSE new >= lo /\ new <= hi

OperatorScope(s, r) ==
  /\ \A l \in 1..NUMBER_OF_MENU_LEVELS : r.menuCursor[l] <= MaxCursor
  /\ Kept(s.initSetActualPosMicrometer, r.initSetActualPosMicrometer, 0, MaxMicrometer)
  /\ Kept(s.initStepperTargetPosMicrometer, r.initStepperTargetPosMicrometer, 0, MaxMicrometer)
  /\ \A a \in Axes : Kept(InitAxisTarget(s, a), InitAxisTarget(r, a), 0, MaxMicrometer)
  /\ Kept(s.eepromData.stepperMicrometerPerHour, r.eepromData.stepperMicrometerPerHour,
          1, 1 + MaxMicrometer)
  /\ Kept(s.eepromData.stepperStartPosMicrometer, r.eepromData.stepperStartPosMicrometer,
          0, MaxMicrometer)
  /\ Kept(s.eepromData.stepperEndPosMicrometer, r.eepromData.stepperEndPosMicrometer,
          0, MaxMicrometer)
  /\ Kept(s.eepromData.timeAfterReachingEndPos, r.eepromData.timeAfterReachingEndPos,
          0, MaxMicrometer * MINUTE_INCREMENT)
  /\ ClampProgram(r) <= MaxProgram
  /\ IF r.dcDutyCycle = s.dcDutyCycle /\ r.dcTimeslot = s.dcTimeslot
     THEN TRUE
     ELSE r.dcDutyCycle = eepromRead(s).dcDutyCycle /\ r.dcTimeslot = eepromRead(s).dcTimeslot

EventFlags ==
  <<"button1PressEvent", "button2PressEvent", "button3PressEvent", "button4PressEvent",
    "button2LongPressEvent", "button3LongPressEvent">>

FlagsSet(s) == Cardinality({n \in 1..Len(EventFlags) : s[EventFlags[n]]})

\* what one firing of the button interrupt can make of a button's event
\* flags, over the debounce states and readings it can fire with
DebounceCounts ==
  {0, BUTTON_CHANGECOUNT - 1, BUTTON_CHANGECOUNT, AUTOREPEAT_COUNT, LONG_PRESS_COUNT}

PlainOutcomes ==
  [press \in BOOLEAN |->
     {ButtonTickPlain([state |-> st, last |-> la, count |-> n, press |-> press], rd).press :
        st \in BOOLEAN, la \in BOOLEAN, n \in DebounceCounts, rd \in BOOLEAN}]

RepeatOutcomes ==
  [fl \in BOOLEAN \X BOOLEAN |->
     {LET b == ButtonTickRepeat([state |-> st, last |-> la, count |-> n,
                                 press |-> fl[1], long |-> fl[2]], rd)
      IN  <<b.press, b.long>> :
        st \in BOOLEAN, la \in BOOLEAN, n \in DebounceCounts, rd \in BOOLEAN}]

(***************************************************************************)
(* Actions: one per function loop() calls, one per interrupt handler, and  *)
(* the passing of time.                                                    *)
(***************************************************************************)
Call(name, r) ==
  /\ pc = name
  /\ Commit(r)
  /\ pc' = NextCall(name)

HandleButtonLongPressEvent ==
  /\ pc = "handleButtonLongPressEvent"
  /\ \E ub \in BOOLEAN :
       LET r == handleButtonLongPressEvent(State, ub)
       IN  OperatorScope(State, r) /\ Call("handleButtonLongPressEvent", r)

HandleButtonPressEvent ==
  /\ pc = "handleButtonPressEvent"
  /\ \E ub \in BOOLEAN :
       LET r == handleButtonPressEvent(State, ub)
       IN  OperatorScope(State, r) /\ Call("handleButtonPressEvent", r)

EnsureValuesWithinLimits ==
  Call("ensureValuesWithinLimits", ensureValuesWithinLimits(State))

UpdateInitActualPosition ==
  Call("updateInitActualPosition", updateInitActualPosition(State))

StopRunToStartPosIfReached ==
  Call("stopRunToStartPosIfReached", stopRunToStartPosIfReached(State))

SetStepperTargets == Call("setStepperTargets", setStepperTargets(State))

SetDcTargets ==
  /\ pc = "setDcTargets"
  /\ \E ub \in BOOLEAN : Call("setDcTargets", setDcTargets(State, ub))

RunDcMotors == Call("runDcMotors", runDcMotors(State))

CalculateRemainingTime == Call("calculateRemainingTime", calculateRemainingTime(State))

StopProgramIfTimeIsUp == Call("stopProgramIfTimeIsUp", stopProgramIfTimeIsUp(State))

UpdateMenu == Call("updateMenu", updateMenu(State))

SetDisplayFrameBoundaries ==
  Call("setDisplayFrameBoundaries", setDisplayFrameBoundaries(State))

DisplayMenu == Call("displayMenu", displayMenu(State))

Loop ==
  \/ HandleButtonLongPressEvent
  \/ HandleButtonPressEvent
  \/ EnsureValuesWithinLimits
  \/ UpdateInitActualPosition
  \/ StopRunToStartPosIfReached
  \/ SetStepperTargets
  \/ SetDcTargets
  \/ RunDcMotors
  \/ CalculateRemainingTime
  \/ StopProgramIfTimeIsUp
  \/ UpdateMenu
  \/ SetDisplayFrameBoundaries
  \/ DisplayMenu

(***************************************************************************)
(* The two timer interrupts fire, and millis() advances, at any point of   *)
(* loop().  This specification follows them at the boundary between two    *)
(* iterations of loop(); the stepper interrupt on its own, entered with    *)
(* any combination of the globals it shares with loop(), is the subject of *)
(* SpecStepper.                                                            *)
(***************************************************************************)
AtLoopBoundary == pc = LoopOrder[1]

StepperInterrupt ==
  /\ AtLoopBoundary
  /\ Commit(interruptRunStepperMotors(State))
  /\ UNCHANGED pc

ButtonInterrupt ==
  /\ AtLoopBoundary
  /\ \E o1 \in PlainOutcomes[button1PressEvent], o4 \in PlainOutcomes[button4PressEvent],
        o2 \in RepeatOutcomes[<<button2PressEvent, button2LongPressEvent>>],
        o3 \in RepeatOutcomes[<<button3PressEvent, button3LongPressEvent>>] :
       LET r == [State EXCEPT !.button1PressEvent = o1,
                              !.button4PressEvent = o4,
                              !.button2PressEvent = o2[1],
                              !.button2LongPressEvent = o2[2],
                              !.button3PressEvent = o3[1],
                              !.button3LongPressEvent = o3[2]]
       IN  /\ r # State
           /\ FlagsSet(r) <= MaxButtons
           /\ \A ub \in BOOLEAN :
                LET h == handleButtonLongPressEvent(r, ub)
                IN  /\ OperatorScope(r, h)
                    /\ OperatorScope(h, handleButtonPressEvent(h, ub))
           /\ Commit(r)
  /\ UNCHANGED pc

AdvanceTime ==
  /\ AtLoopBoundary
  /\ millis < MaxSeconds * 1000
  /\ millis' = millis + 1000
  /\ UNCHANGED <<level, menuCursor, lowerFrameBound, upperFrameBound, isValueSelected,
                 menuProgram, button1PressEvent, button2PressEvent, button3PressEvent,
                 button4PressEvent, button2LongPressEvent, button3LongPressEvent,
                 isProgramRunning, isInitializationRunning, isRunningToStartPos,
                 startTime, elapsedTime, remainingTime, totalDuration, eepromData,
                 dcDutyCycle, dcTimeslot, program, stepper1CurrentPosSteps,
                 stepper2CurrentPosSteps, stepper3CurrentPosSteps,
                 stepper1TargetPosSteps, stepper2TargetPosSteps, stepper3TargetPosSteps,
                 interruptState, isStepperBlockedCw, isStepperBlockedCcw,
                 stepperCurrentPosMicrometer, initStepperCurrentPosMicrometer,
                 initSetActualPosMicrometer, initStepperTargetPosMicrometer,
                 initStepper1TargetPosMicrometer, initStepper2TargetPosMicrometer,
                 initStepper3TargetPosMicrometer, dcCurrentCycle, dcTargetCycle,
                 driver123Dir, driverStep, dcIn1, dcIn2, dcPwm, stepperTimerPeriod,
                 tickWrites, displayed, eeprom, debounce, pc>>

Next == Loop \/ StepperInterrupt \/ ButtonInterrupt \/ AdvanceTime

Spec == Init /\ [][Next]_vars


(***************************************************************************)
(* Specifications of single functions.  Each starts from states the        *)
(* machine can be in when the function is called and calls the function;   *)
(* there pc names the function that ran last.                              *)
(***************************************************************************)
Booted == setup(InitialGlobals(SavedImage, <<4, 0>>))

AllAxes(v) == [a \in Axes |-> v]
AllMotors(v) == [i \in Motors |-> v]

\* the mode flags: startInitialization and startProgram exclude each other;
\* isRunningToStartPos is also written through the menu entry bound to it
ModeFlags ==
  {m \in BOOLEAN \X BOOLEAN \X BOOLEAN : ~(m[1] /\ m[2])}

WithModes(s, m) ==
  [s EXCEPT !.isProgramRunning = m[1],
            !.isInitializationRunning = m[2],
            !.isRunningToStartPos = m[3]]

WithAxes(s, cur, tgt) ==
  [s EXCEPT !.stepper1CurrentPosSteps = cur[1],
            !.stepper2CurrentPosSteps = cur[2],
            !.stepper3CurrentPosSteps = cur[3],
            !.stepper1TargetPosSteps = tgt[1],
            !.stepper2TargetPosSteps = tgt[2],
            !.stepper3TargetPosSteps = tgt[3]]

(***************************************************************************)
(* SpecModeOps: the five functions of the mode coordinator.                *)
(***************************************************************************)
DrawnDuty == {-2, 0, 1}
DrawnSteps == {0, STEPS_PER_MICROMETER}
DrawnMicrometer == {0, 2}

InitModeOps ==
  /\ \E m \in ModeFlags, target \in DrawnDuty, current \in DrawnDuty, driven \in BOOLEAN,
        cur \in DrawnSteps, tgt \in DrawnSteps, acc \in DrawnMicrometer,
        actual \in DrawnMicrometer, index \in {1, NUMBER_OF_PROGRAMS},
        elapsed \in {0, 1}, started \in {0, 1000} :
       \* outside a program run stopProgram has zeroed what runDcMotors drives
       /\ m[1] \/ (current = 0 /\ ~driven /\ elapsed = 0 /\ started = 0)
       \* outside initialization updateInitActualPosition has set the actual position
       /\ m[2] \/ actual = CDiv(cur, STEPS_PER_MICROMETER)
       /\ m[2] => index = 1
       /\ AssignGlobals(
            [WithAxes(WithModes(Booted, m), AllAxes(cur), AllAxes(tgt)) EXCEPT
               !.dcTargetCycle = AllMotors(target),
               !.dcCurrentCycle = AllMotors(current),
               !.dcIn1 = AllMotors(driven /\ current >= 0),
               !.dcIn2 = AllMotors(driven /\ current < 0),
               !.initStepperTargetPosMicrometer = acc,
               !.initStepperCurrentPosMicrometer = acc,
               !.initStepper1TargetPosMicrometer = acc,
               !.initStepper2TargetPosMicrometer = acc,
               !.initStepper3TargetPosMicrometer = acc,
               !.initSetActualPosMicrometer = actual,
               !.program = IF m[2] THEN 0 ELSE index,
               !.elapsedTime = elapsed,
               !.startTime = started,
               !.millis = 2000])
  /\ pc = "setup"

RunToStartPos ==
  /\ Commit(runToStartPos(State))
  /\ pc' = "runToStartPos"

StartInitialization ==
  /\ Commit(startInitialization(State))
  /\ pc' = "startInitialization"

StopInitialization ==
  /\ Commit(stopInitialization(State))
  /\ pc' = "stopInitialization"

StartProgram ==
  /\ Commit(startProgram(State))
  /\ pc' = "startProgram"

StopProgram ==
  /\ Commit(stopProgram(State))
  /\ pc' = "stopProgram"

NextModeOps ==
  \/ RunToStartPos
  \/ StartInitialization
  \/ StopInitialization
  \/ StartProgram
  \/ StopProgram

SpecModeOps == InitModeOps /\ [][NextModeOps]_vars

(***************************************************************************)
(* SpecStepper: the stepper interrupt, entered with every combination of   *)
(* axis positions and targets within 0..MaxSteps, pulse phase, block flags *)
(* and mode flags.                                                         *)
(***************************************************************************)
InitStepper ==
  /\ \E m \in ModeFlags, cur \in [Axes -> 0..MaxSteps], tgt \in [Axes -> 0..MaxSteps],
        phase \in BOOLEAN, cw \in BOOLEAN, ccw \in BOOLEAN :
       AssignGlobals(
         [WithAxes(WithModes(Booted, m), cur, tgt) EXCEPT
            !.interruptState = phase,
            !.isStepperBlockedCw = cw,
            !.isStepperBlockedCcw = ccw])
  /\ pc = "setup"

InterruptRunStepperMotors ==
  /\ Commit(interruptRunStepperMotors(State))
  /\ pc' = "interruptRunStepperMotors"

NextStepper == InterruptRunStepperMotors

SpecStepper == InitStepper /\ [][NextStepper]_vars

(***************************************************************************)
(* SpecStepperFair: the stepper interrupt fired again and again by its     *)
(* IntervalTimer, which is begun in setup() and never ended, with fixed    *)
(* targets at the ends of 0..MaxSteps, in a program run, a run to the      *)
(* start position or no mode.                                              *)
(***************************************************************************)
FairModes == {<<TRUE, FALSE, FALSE>>, <<FALSE, FALSE, TRUE>>, <<FALSE, FALSE, FALSE>>}

InitStepperFair ==
  /\ \E m \in FairModes, cur \in [Axes -> 0..MaxSteps], tgt \in [Axes -> {0, MaxSteps}],
        phase \in BOOLEAN, cw \in BOOLEAN, ccw \in BOOLEAN :
       AssignGlobals(
         [WithAxes(WithModes(Booted, m), cur, tgt) EXCEPT
            !.interruptState = phase,
            !.isStepperBlockedCw = cw,
            !.isStepperBlockedCcw = ccw])
  /\ pc = "setup"

\* Every firing of the handler toggles interruptState (line 715) and nothing
\* else does, and the handler can always run: weak fairness of the firing is
\* weak fairness of the toggling.
TimerFires == interruptState' = ~interruptState

SpecStepperFair ==
  InitStepperFair /\ [][NextStepper]_vars /\ WF_interruptState(TimerFires)

(***************************************************************************)
(* SpecLimits: one pass of loop() from the button handling to the limits   *)
(* enforcer.  The pass starts with the operator in edit mode on a drawn    *)
(* entry, a drawn button event pending, values at the limits the previous  *)
(* pass enforced and a drawn EEPROM content; the operator is not held to   *)
(* OperatorScope.                                                          *)
(***************************************************************************)
\* an EEPROM content with every value outside its limits
GarbageImage ==
  [stepperMicrometerPerHour |-> 0,
   stepperStartPosMicrometer |-> -3,
   stepperEndPosMicrometer |-> 5,
   timeAfterReachingEndPos |-> DWELL_MAX + 1,
   dcDutyCycle |-> [f \in Cells |-> IF FlatM(f) % 2 = 0 THEN -128 ELSE 127],
   dcTimeslot |-> [f \in Cells |-> TIMESLOT_MAX + 1 + FlatM(f)],
   program |-> NUMBER_OF_PROGRAMS + 1,
   stepper1CurrentPosSteps |-> 0,
   stepper2CurrentPosSteps |-> 0,
   stepper3CurrentPosSteps |-> 0]

DrawnImages == {ErasedImage, SavedImage, GarbageImage}

\* <<menuCursor[1], menuCursor[2]>>: LOAD Data, Micrometer/h, Start Pos,
\* Tgt Pos, Time @ Tgt, DC 1 Duty A, DC 1 Time A, DC 4 Duty E, DC 4 Time E
DrawnEntries ==
  {<<1, 1>>, <<3, 6>>, <<3, 7>>, <<3, 8>>, <<3, 9>>, <<3, 15>>, <<3, 16>>, <<3, 56>>,
   <<3, 57>>}

DrawnEvents ==
  {"button1PressEvent", "button2PressEvent", "button3PressEvent",
   "button2LongPressEvent", "button3LongPressEvent"}

InitLimits ==
  /\ \E image \in DrawnImages, entry \in DrawnEntries, event \in DrawnEvents,
        feed \in {1, 5}, start \in {0, 3}, atStart \in BOOLEAN,
        dwell \in {0, DWELL_MAX}, duty \in {-DUTY_MAX, 0, DUTY_MAX},
        slot \in {0, TIMESLOT_MAX} :
       LET s == [Booted EXCEPT
                   !.eeprom = image,
                   !.level = 2,
                   !.menuCursor = [l \in 1..NUMBER_OF_MENU_LEVELS |->
                                     IF l = 1 THEN entry[1]
                                     ELSE IF l = 2 THEN entry[2] ELSE 1],
                   !.isValueSelected = TRUE,
                   ![event] = TRUE,
                   !.eepromData.stepperMicrometerPerHour = feed,
                   !.eepromData.stepperStartPosMicrometer = start,
                   !.eepromData.stepperEndPosMicrometer = IF atStart THEN start ELSE 0,
                   !.eepromData.timeAfterReachingEndPos = dwell,
                   !.dcDutyCycle = [f \in Cells |-> IF InClampedRows(f) THEN duty ELSE 0],
                   !.dcTimeslot = [f \in Cells |-> IF InClampedRows(f) THEN slot ELSE 0]]
       IN  AssignGlobals(setDisplayFrameBoundaries(s))
  /\ pc = LoopOrder[1]

HandleButtonLongPressEventOfAnyOperator ==
  /\ pc = "handleButtonLongPressEvent"
  /\ \E ub \in BOOLEAN :
       Call("handleButtonLongPressEvent", handleButtonLongPressEvent(State, ub))

HandleButtonPressEventOfAnyOperator ==
  /\ pc = "handleButtonPressEvent"
  /\ \E ub \in BOOLEAN :
       Call("handleButtonPressEvent", handleButtonPressEvent(State, ub))

NextLimits ==
  \/ HandleButtonLongPressEventOfAnyOperator
  \/ HandleButtonPressEventOfAnyOperator
  \/ EnsureValuesWithinLimits

SpecLimits == InitLimits /\ [][NextLimits]_vars

(***************************************************************************)
(* SpecProgram: one pass of loop() from the button handling to updateMenu. *)
(* The pass starts in any combination of the mode flags, on the first or   *)
(* the last program (program 0 during initialization), with the operator   *)
(* in edit mode on an entry that writes the program index and a drawn      *)
(* button event pending; the operator is not held to OperatorScope.        *)
(***************************************************************************)
\* <<menuCursor[1], menuCursor[2]>>: LOAD Data, START Init, STOP Init,
\* DC Motor Program
ProgramEntries == {<<1, 1>>, <<2, 1>>, <<2, 2>>, <<3, 1>>}

InitProgram ==
  /\ \E image \in {SavedImage, GarbageImage}, entry \in ProgramEntries,
        event \in DrawnEvents, m \in ModeFlags, last \in BOOLEAN :
       LET p == IF m[2] THEN 0 ELSE IF last THEN NUMBER_OF_PROGRAMS ELSE 1
           s == [WithModes(Booted, m) EXCEPT
                   !.eeprom = image,
                   !.level = 2,
                   !.menuCursor = [l \in 1..NUMBER_OF_MENU_LEVELS |->
                                     IF l = 1 THEN entry[1]
                                     ELSE IF l = 2 THEN entry[2] ELSE 1],
                   !.isValueSelected = TRUE,
                   ![event] = TRUE,
                   !.program = p,
                   !.menuProgram = p]
       IN  AssignGlobals(setDisplayFrameBoundaries(s))
  /\ pc = LoopOrder[1]

NextProgram ==
  \/ HandleButtonLongPressEventOfAnyOperator
  \/ HandleButtonPressEventOfAnyOperator
  \/ EnsureValuesWithinLimits
  \/ UpdateInitActualPosition
  \/ StopRunToStartPosIfReached
  \/ SetStepperTargets
  \/ SetDcTargets
  \/ RunDcMotors
  \/ CalculateRemainingTime
  \/ StopProgramIfTimeIsUp
  \/ UpdateMenu

SpecProgram == InitProgram /\ [][NextProgram]_vars

(***************************************************************************)
(* SpecDc: setDcTargets followed by runDcMotors, entered with drawn        *)
(* timeslots and duty cycles of the active program, a drawn elapsed time   *)
(* and a drawn actual duty cycle.                                          *)
(***************************************************************************)
\* the timeslots of the segments A..E of a channel
DcSlotPatterns ==
  << <<10, 5, 1, 0, 0>>, <<0, 0, 0, 0, 0>>, <<0, 3, 0, 2, 0>>, <<2, 2, 2, 2, 2>> >>

\* the duty cycles of the segments A..E of a channel
DcDutyPatterns == << <<50, -30, 0, 0, 0>>, <<DUTY_MAX, -DUTY_MAX, 7, -7, 1>> >>

DrawnCurrent == {-DUTY_MAX, -1, 0, DUTY_MAX}

\* channel i has the pattern i - 1 places after pattern p
PatternOf(p, i) == DcSlotPatterns[((p + i - 2) % Len(DcSlotPatterns)) + 1]

InitDc ==
  /\ \E running \in BOOLEAN, k \in {1, NUMBER_OF_PROGRAMS}, p \in 1..Len(DcSlotPatterns),
        d \in 1..Len(DcDutyPatterns), elapsed \in 0..MaxElapsed, current \in DrawnCurrent :
       \* outside a program run stopProgram has zeroed what runDcMotors drives
       /\ IF running THEN TRUE ELSE current = 0
       /\ AssignGlobals(
            [Booted EXCEPT
               !.isProgramRunning = running,
               !.program = k,
               !.menuProgram = k,
               !.dcTimeslot = [f \in Cells |->
                                 IF InClampedRows(f) /\ FlatK(f) = k
                                 THEN PatternOf(p, FlatI(f))[FlatM(f)] ELSE 0],
               !.dcDutyCycle = [f \in Cells |->
                                  IF InClampedRows(f) /\ FlatK(f) = k
                                  THEN DcDutyPatterns[d][FlatM(f)] ELSE 0],
               !.dcCurrentCycle = AllMotors(current),
               !.startTime = 0,
               !.millis = elapsed * 1000])
  /\ pc = "setDcTargets"

NextDc == SetDcTargets \/ RunDcMotors

SpecDc == InitDc /\ [][NextDc]_vars

(***************************************************************************)
(* SpecRunToStart: loop() and the stepper interrupt around a run to the    *)
(* start position.  The operator is in edit mode on the entry MOVE to      *)
(* Start with a drawn button event pending; either the machine is idle     *)
(* (the Enter event then calls runToStartPos) or the run is under way.     *)
(***************************************************************************)
RunToStartEvents == {"button1PressEvent", "button3PressEvent", "button4PressEvent"}

InitRunToStart ==
  /\ \E run \in BOOLEAN, cur \in [Axes -> {0, 2}], stale \in BOOLEAN,
        event \in RunToStartEvents :
       LET start == Booted.eepromData.stepperStartPosMicrometer * STEPS_PER_MICROMETER
           \* idle, the targets are those of the last motion: the position the
           \* axes stand at, or the targets of a stopped run
           tgt == IF stale THEN cur ELSE AllAxes(start)
           s == [WithAxes(Booted, cur, tgt) EXCEPT
                   !.isRunningToStartPos = run,
                   !.level = 2,
                   !.menuCursor = [l \in 1..NUMBER_OF_MENU_LEVELS |->
                                     IF l = 1 THEN 3 ELSE IF l = 2 THEN 2 ELSE 1],
                   !.isValueSelected = TRUE,
                   ![event] = TRUE]
       IN  \* the run is under way as long as an axis is off the start position
           /\ IF run THEN ~stale /\ cur # tgt ELSE TRUE
           /\ AssignGlobals(setDisplayFrameBoundaries(s))
  /\ pc = LoopOrder[1]

NextRunToStart ==
  \/ HandleButtonLongPressEventOfAnyOperator
  \/ HandleButtonPressEventOfAnyOperator
  \/ EnsureValuesWithinLimits
  \/ UpdateInitActualPosition
  \/ StopRunToStartPosIfReached
  \/ SetStepperTargets
  \/ SetDcTargets
  \/ RunDcMotors
  \/ CalculateRemainingTime
  \/ StopProgramIfTimeIsUp
  \/ UpdateMenu
  \/ SetDisplayFrameBoundaries
  \/ DisplayMenu
  \/ StepperInterrupt

SpecRunToStart == InitRunToStart /\ [][NextRunToStart]_vars

(***************************************************************************)
(* SpecMenu: the button handling of one pass of loop(), entered at a drawn *)
(* place of the menu, in or out of edit mode, with drawn button events     *)
(* pending.  Edit mode is drawn only where the Enter handling can have     *)
(* set it: on an entry without a level below it that is not read-only.     *)
(***************************************************************************)
\* <<level, menuCursor>>: a cursor is 1 at the levels below the current one
MenuPlaces ==
  {pl \in (1..NUMBER_OF_MENU_LEVELS)
            \X [1..NUMBER_OF_MENU_LEVELS -> 1..MaxEntry] :
     LET c == pl[2]
     IN  /\ c[1] <= MAX_ITEMS_LEVEL_1
         /\ itemNamed(c[1], c[2], 0)
         /\ IF pl[1] = 1 THEN c[2] = 1 ELSE TRUE
         /\ IF pl[1] = 3 THEN c[3] <= MaxSubEntry /\ itemNamed(c[1], c[2], c[3])
            ELSE c[3] = 1}

PendingEvents ==
  {fl \in [1..Len(EventFlags) -> BOOLEAN] :
     Cardinality({n \in 1..Len(EventFlags) : fl[n]}) \in 1..MaxButtons}

InitMenu ==
  /\ \E pl \in MenuPlaces, selected \in BOOLEAN, fl \in PendingEvents :
       LET s == [Booted EXCEPT
                   !.level = pl[1],
                   !.menuCursor = pl[2],
                   !.isValueSelected = selected,
                   !.button1PressEvent = fl[1],
                   !.button2PressEvent = fl[2],
                   !.button3PressEvent = fl[3],
                   !.button4PressEvent = fl[4],
                   !.button2LongPressEvent = fl[5],
                   !.button3LongPressEvent = fl[6]]
           e == EntryAtLevel(s)
       IN  /\ IF selected
              THEN /\ pl[1] >= 2
                   /\ ~(pl[1] = 2 /\ itemNamed(pl[2][1], pl[2][2], 1))
                   /\ ~isReadOnly(e[1], e[2], e[3])
              ELSE TRUE
           /\ AssignGlobals(setDisplayFrameBoundaries(s))
  /\ pc = LoopOrder[1]

NextMenu ==
  \/ HandleButtonLongPressEventOfAnyOperator
  \/ HandleButtonPressEventOfAnyOperator

SpecMenu == InitMenu /\ [][NextMenu]_vars

(***************************************************************************)
(* SpecFrame: loop() entered at a drawn place of the menu with one button  *)
(* event pending.  The windows of the levels down to the current one are   *)
(* as earlier calls of setDisplayFrameBoundaries can have left them: four  *)
(* rows with the cursor on the first or on the last of them.  The two      *)
(* cells behind the arrays, which the code uses as the window of level 3,  *)
(* hold a drawn content.  In edit mode the event is Enter or Back (Up and  *)
(* Down keep the cursor there).                                            *)
(***************************************************************************)
\* <<lowerFrameBound[3], upperFrameBound[3]>> before the first write: the
\* first element of upperFrameBound and a cleared word, or two cells that
\* hold 1
FrameOverrunContents == {<<4, 0>>, <<1, 1>>}

\* the entry at index n of level l in the menu the cursors c are in
NamedAt(c, l, n) ==
  CASE l = 1 -> n <= MAX_ITEMS_LEVEL_1
    [] l = 2 -> itemNamed(c[1], n, 0)
    [] l = 3 -> itemNamed(c[1], c[2], n)

\* a lower bound the window of level l can have with the cursor at c[l]:
\* the window has been moved down only as far as the cursor has been
WindowLowers(c, l) ==
  {lo \in {IF c[l] > 3 THEN c[l] - 3 ELSE 1, c[l]} :
     IF lo = 1 THEN TRUE ELSE NamedAt(c, l, lo + 3)}

InitFrame ==
  /\ \E pl \in MenuPlaces, selected \in BOOLEAN, ev \in 1..Len(EventFlags),
        raw \in FrameOverrunContents :
     \E lo1 \in WindowLowers(pl[2], 1), lo2 \in WindowLowers(pl[2], 2) :
       LET lower == <<lo1, IF pl[1] >= 2 THEN lo2 ELSE 1, raw[1]>>
           upper == <<lo1 + 3, IF pl[1] >= 2 THEN lo2 + 3 ELSE 4, raw[2]>>
           s == [Booted EXCEPT
                   !.level = pl[1],
                   !.menuCursor = pl[2],
                   !.lowerFrameBound = [l \in 1..NUMBER_OF_MENU_LEVELS |-> lower[l]],
                   !.upperFrameBound = [l \in 1..NUMBER_OF_MENU_LEVELS |-> upper[l]],
                   !.isValueSelected = selected,
                   !.button1PressEvent = (ev = 1),
                   !.button2PressEvent = (ev = 2),
                   !.button3PressEvent = (ev = 3),
                   !.button4PressEvent = (ev = 4),
                   !.button2LongPressEvent = (ev = 5),
                   !.button3LongPressEvent = (ev = 6)]
           e == EntryAtLevel(s)
       IN  /\ IF pl[1] = 1 THEN lo2 = 1 ELSE TRUE
           /\ IF selected
              THEN /\ pl[1] >= 2
                   /\ ~(pl[1] = 2 /\ itemNamed(pl[2][1], pl[2][2], 1))
                   /\ ~isReadOnly(e[1], e[2], e[3])
                   /\ ev \in {1, 4}
              ELSE TRUE
           /\ AssignGlobals(setDisplayFrameBoundaries(s))
  /\ pc = LoopOrder[1]

NextFrame ==
  \/ HandleButtonLongPressEventOfAnyOperator
  \/ HandleButtonPressEventOfAnyOperator
  \/ EnsureValuesWithinLimits
  \/ UpdateInitActualPosition
  \/ StopRunToStartPosIfReached
  \/ SetStepperTargets
  \/ SetDcTargets
  \/ RunDcMotors
  \/ CalculateRemainingTime
  \/ StopProgramIfTimeIsUp
  \/ UpdateMenu
  \/ SetDisplayFrameBoundaries
  \/ DisplayMenu

SpecFrame == InitFrame /\ [][NextFrame]_vars

(***************************************************************************)
(* SpecPersist: eepromUpdate, then eepromRead, with no edit and no stepper *)
(* interrupt in between.  The save starts from values as a pass of loop()  *)
(* leaves them: the duty and timeslot cells of the rows the limits         *)
(* enforcer covers are within their limits (dispatch of SAVE Data comes    *)
(* before the Up and Down branches of the handler, so no edit lies between *)
(* the enforcer and the save), the cells with an index 0 hold any value of *)
(* their type, the axes stand anywhere, and the EEPROM holds a drawn       *)
(* earlier content.                                                        *)
(***************************************************************************)
DrawnPositions == {-1, 7}

InitPersist ==
  /\ \E image \in DrawnImages, duty \in {-DUTY_MAX, 0, 37, DUTY_MAX},
        slot \in {0, 1, TIMESLOT_MAX}, rawDuty \in {-128, 0, 127},
        rawSlot \in {0, TwoTo16 - 1}, cur \in [Axes -> DrawnPositions] :
       AssignGlobals(
         [Booted EXCEPT
            !.eeprom = image,
            !.stepper1CurrentPosSteps = cur[1],
            !.stepper2CurrentPosSteps = cur[2],
            !.stepper3CurrentPosSteps = cur[3],
            !.dcDutyCycle = [f \in Cells |->
                               IF InClampedRows(f)
                               THEN (IF FlatM(f) = 1 THEN duty ELSE FlatI(f) - FlatK(f))
                               ELSE rawDuty],
            !.dcTimeslot = [f \in Cells |->
                              IF InClampedRows(f)
                              THEN (IF FlatM(f) = 1 THEN slot ELSE FlatI(f) + FlatK(f))
                              ELSE rawSlot]])
  /\ pc = "eepromUpdate"

EepromUpdate ==
  /\ pc = "eepromUpdate"
  /\ Commit(eepromUpdate(State))
  /\ pc' = "eepromRead"

EepromRead ==
  /\ pc = "eepromRead"
  /\ Commit(eepromRead(State))
  /\ pc' = "loaded"

NextPersist == EepromUpdate \/ EepromRead

SpecPersist == InitPersist /\ [][NextPersist]_vars

(***************************************************************************)
(* SpecButtons: the button interrupt tick by tick, between and inside the  *)
(* two button handlers of loop(), which consume the event flags.  The      *)
(* operator works one button at a time.  The same-reading counters are     *)
(* followed through windows of ticks around the three thresholds           *)
(* BUTTON_CHANGECOUNT, AUTOREPEAT_COUNT and LONG_PRESS_COUNT; a run starts *)
(* at the initialisers or some ticks before the second or third threshold  *)
(* of an input held pressed or left released.  A counter above MaxCount is *)
(* above every threshold the handler compares it with and is kept at       *)
(* MaxCount.                                                               *)
(***************************************************************************)
MaxCount == LONG_PRESS_COUNT + Window

ObservedCounts ==
  (0..(BUTTON_CHANGECOUNT + Window))
    \cup ((AUTOREPEAT_COUNT - 1)..(AUTOREPEAT_COUNT + Window))
    \cup ((LONG_PRESS_COUNT - 1)..MaxCount)

\* an input left released for longer than every threshold
IdleButton == [state |-> FALSE, last |-> TRUE, count |-> MaxCount]

ActiveButtons(s, readings) ==
  {n \in Buttons : IF readings[n] THEN s.debounce[n] /= IdleButton ELSE TRUE}

InitButtons ==
  /\ \E n \in Buttons, start \in {0, AUTOREPEAT_COUNT - 1, LONG_PRESS_COUNT - 1},
        held \in BOOLEAN, press \in BOOLEAN :
       LET flag == <<"button1PressEvent", "button2PressEvent", "button3PressEvent",
                     "button4PressEvent">>[n]
           \* at the initialisers the input has just read released; later in a
           \* hold the accepted level is the level read
           b == IF start = 0
                THEN [state |-> FALSE, last |-> TRUE, count |-> 0]
                ELSE [state |-> held, last |-> ~held, count |-> start]
       IN  /\ IF start = 0 THEN held /\ ~press ELSE TRUE
           /\ AssignGlobals(
                [Booted EXCEPT !.debounce = [m \in Buttons |-> IF m = n THEN b ELSE IdleButton],
                               ![flag] = press])
  /\ pc \in {"handleButtonLongPressEvent", "handleButtonPressEvent"}

InterruptButtonPressDetection ==
  \E readings \in [Buttons -> BOOLEAN] :
    LET r == interruptButtonPressDetection(State, readings)
        kept == [r EXCEPT !.debounce =
                   [n \in Buttons |->
                      [r.debounce[n] EXCEPT !.count = IF @ > MaxCount THEN MaxCount ELSE @]]]
    IN  /\ Cardinality(ActiveButtons(State, readings)) <= 1
        /\ \A n \in Buttons : kept.debounce[n].count \in ObservedCounts
        /\ Commit(kept)
        /\ UNCHANGED pc

ButtonLongPressHandling ==
  /\ pc = "handleButtonLongPressEvent"
  /\ \E ub \in BOOLEAN : Commit(handleButtonLongPressEvent(State, ub))
  /\ pc' = "handleButtonPressEvent"

ButtonPressHandling ==
  /\ pc = "handleButtonPressEvent"
  /\ \E ub \in BOOLEAN : Commit(handleButtonPressEvent(State, ub))
  /\ pc' = "handleButtonLongPressEvent"

NextButtons ==
  \/ InterruptButtonPressDetection
  \/ ButtonLongPressHandling
  \/ ButtonPressHandling

SpecButtons == InitButtons /\ [][NextButtons]_vars

(***************************************************************************)
(* SpecDuration: calculateRemainingTime and stopProgramIfTimeIsUp on drawn *)
(* configuration values within the limits ensureValuesWithinLimits         *)
(* enforces: a feed rate of at least 1, a start position of 0 or more (the *)
(* enforcer sets no upper limit), an end position from 0 up to the start   *)
(* position, a dwell time of 0..DWELL_MAX.                                 *)
(***************************************************************************)
\* the largest distance whose product with 3600 is an int, the next one,
\* and values around the example of the README
DrawnStart == {0, 200, 1000, 596523, 596524, 600000}
DrawnEnd == {0, 200, 1000}
DrawnFeed == {1, 7, 500, 3600}
DrawnDwell == {0, MINUTE_INCREMENT, DWELL_MAX}

InitDuration ==
  /\ \E start \in DrawnStart, end \in DrawnEnd, feed \in DrawnFeed, dwell \in DrawnDwell,
        running \in BOOLEAN, elapsed \in {0, 1, MaxElapsed} :
       /\ end <= start
       /\ AssignGlobals(
            [Booted EXCEPT !.eepromData.stepperStartPosMicrometer = start,
                           !.eepromData.stepperEndPosMicrometer = end,
                           !.eepromData.stepperMicrometerPerHour = feed,
                           !.eepromData.timeAfterReachingEndPos = dwell,
                           !.isProgramRunning = running,
                           !.startTime = 0,
                           !.millis = elapsed * 1000])
  /\ pc = "calculateRemainingTime"

NextDuration == CalculateRemainingTime \/ StopProgramIfTimeIsUp

SpecDuration == InitDuration /\ [][NextDuration]_vars

(***************************************************************************)
(* SpecAutoStop: a started program left to itself.  loop() runs again and  *)
(* again with no button event pending, and millis() advances from one      *)
(* iteration to the next: by a second up to MaxSeconds + 1 elapsed         *)
(* seconds, or by LongStep milliseconds, an eighth of the range of the     *)
(* unsigned long.                                                          *)
(* The configuration is within the limits of ensureValuesWithinLimits and  *)
(* the program is started at the power-up of the timer or one second       *)
(* before millis() wraps.                                                  *)
(***************************************************************************)
\* <<start position, end position, feed rate, dwell time>>: total durations
\* of 0, of 2, of 3,600,000 and of 4,320,000 seconds
UnattendedConfigs == {<<0, 0, 1, 0>>, <<1, 0, 3600, 1>>, <<1000, 0, 1, 0>>, <<1200, 0, 1, 0>>}

\* millis() at the start of the program
UnattendedStarts == {0, -1000}

LongStep == TwoTo16 * (TwoTo16 \div 8)

InitAutoStop ==
  /\ \E cfg \in UnattendedConfigs, now \in UnattendedStarts :
       AssignGlobals(startProgram(
         [Booted EXCEPT !.eepromData.stepperStartPosMicrometer = cfg[1],
                        !.eepromData.stepperEndPosMicrometer = cfg[2],
                        !.eepromData.stepperMicrometerPerHour = cfg[3],
                        !.eepromData.timeAfterReachingEndPos = cfg[4],
                        !.millis = now]))
  /\ pc = LoopOrder[1]

\* the function of loop() named name, applied to s
LoopCall(name, s, ub) ==
  CASE name = "handleButtonLongPressEvent" -> handleButtonLongPressEvent(s, ub)
    [] name = "handleButtonPressEvent" -> handleButtonPressEvent(s, ub)
    [] name = "ensureValuesWithinLimits" -> ensureValuesWithinLimits(s)
    [] name = "updateInitActualPosition" -> updateInitActualPosition(s)
    [] name = "stopRunToStartPosIfReached" -> stopRunToStartPosIfReached(s)
    [] name = "setStepperTargets" -> setStepperTargets(s)
    [] name = "setDcTargets" -> setDcTargets(s, ub)
    [] name = "runDcMotors" -> runDcMotors(s)
    [] name = "calculateRemainingTime" -> calculateRemainingTime(s)
    [] name = "stopProgramIfTimeIsUp" -> stopProgramIfTimeIsUp(s)
    [] name = "updateMenu" -> updateMenu(s)
    [] name = "setDisplayFrameBoundaries" -> setDisplayFrameBoundaries(s)
    [] name = "displayMenu" -> displayMenu(s)

\* the next function of loop() runs
UnattendedCall ==
  /\ pc /= "displayMenu"
  /\ \E ub \in BOOLEAN : Commit(LoopCall(pc, State, ub)) /\ pc' = NextCall(pc)

\* displayMenu and the delay(50) that ends the iteration: the time the
\* iteration took has passed when the next one begins
DisplayMenuAndDelay ==
  /\ pc = "displayMenu"
  /\ \E step \in {1000, LongStep} :
       /\ IF step = 1000 THEN ElapsedSeconds(State) <= MaxSeconds ELSE TRUE
       /\ Commit([displayMenu(State) EXCEPT !.millis = AddInt(@, step)])
       /\ pc' = NextCall(pc)

NextAutoStop == UnattendedCall \/ DisplayMenuAndDelay

\* Every step of loop() moves pc to the next function and loop() never
\* blocks: weak fairness of loop() is weak fairness of the advance of pc.
LoopAdvances == pc' = NextCall(pc)

SpecAutoStop ==
  InitAutoStop /\ [][NextAutoStop]_vars /\ WF_pc(LoopAdvances)

(***************************************************************************)
(* Properties.                                                             *)
(***************************************************************************)
ModesActive ==
  Cardinality({n \in 1..3 :
                 <<isInitializationRunning, isRunningToStartPos, isProgramRunning>>[n]})

NoModeActive == ~isInitializationRunning /\ ~isRunningToStartPos /\ ~isProgramRunning

\* C1 (Spec): in every reachable state at most one of isInitializationRunning,
\* isRunningToStartPos and isProgramRunning is true.
C1_ModeExclusivity == ModesActive <= 1

DirWritten(lvl) == \E n \in 1..Len(tickWrites) : tickWrites[n] = <<"DIR", lvl>>

\* C2 (SpecStepper): one firing of interruptRunStepperMotors never services
\* an axis with the direction line HIGH and an axis with the direction line
\* LOW, whatever positions, targets, pulse phase and block flags it is
\* entered with.
C2_OneDirectionPerTick == ~(DirWritten(TRUE) /\ DirWritten(FALSE))

\* a firing that served an axis upwards while another axis is above its target
C2_Witness ==
  /\ pc = "interruptRunStepperMotors"
  /\ DirWritten(TRUE)
  /\ \E a \in Axes : CurrentPos(State, a) > TargetPos(State, a)

\* C3 (Spec): when handleButtonPressEvent runs with the Enter and the Back
\* press event both set, the program is not running afterwards if it was
\* running before, and is running afterwards if it was not running and no
\* other mode was active, in every menu state.
C3_EmergencyToggle ==
  [][(/\ pc = "handleButtonPressEvent"
      /\ pc' = NextCall("handleButtonPressEvent")
      /\ button1PressEvent
      /\ button4PressEvent)
     => /\ isProgramRunning => ~isProgramRunning'
        /\ NoModeActive => isProgramRunning']_vars

ControlState ==
  <<isProgramRunning, isInitializationRunning, isRunningToStartPos,
    stepper1CurrentPosSteps, stepper2CurrentPosSteps, stepper3CurrentPosSteps,
    stepper1TargetPosSteps, stepper2TargetPosSteps, stepper3TargetPosSteps,
    initStepperCurrentPosMicrometer, initSetActualPosMicrometer,
    initStepperTargetPosMicrometer, initStepper1TargetPosMicrometer,
    initStepper2TargetPosMicrometer, initStepper3TargetPosMicrometer,
    program, dcCurrentCycle, dcTargetCycle, elapsedTime, startTime>>

\* the call that makes this step is one its function rejects
GuardViolated ==
  \/ pc' = "startInitialization"
       /\ (isProgramRunning \/ isRunningToStartPos \/ isInitializationRunning)
  \/ pc' = "stopInitialization" /\ ~isInitializationRunning
  \/ pc' = "runToStartPos" /\ (isInitializationRunning \/ isProgramRunning)
  \/ pc' = "startProgram"
       /\ (isInitializationRunning \/ isProgramRunning \/ isRunningToStartPos)
  \/ pc' = "stopProgram" /\ ~isProgramRunning

\* C4 (SpecModeOps): a call of startInitialization, stopInitialization,
\* runToStartPos, startProgram or stopProgram in a state that violates its
\* guard changes no mode flag, axis position or target, initialization
\* accumulator, program index, DC duty cycle, elapsed time or start time.
C4_RejectedCallChangesNothing == [][GuardViolated => UNCHANGED ControlState]_vars

\* startProgram rejected during initialization
C4_Witness ==
  /\ pc = "startProgram"
  /\ isInitializationRunning
  /\ displayed = "Not possible due to running initialization!"

AxisPositions ==
  <<stepper1CurrentPosSteps, stepper2CurrentPosSteps, stepper3CurrentPosSteps>>

\* C5 (SpecStepper): a firing of interruptRunStepperMotors while no mode
\* flag is true changes no axis position and writes no step or direction
\* line, whatever the positions and targets are.
C5_NoMotionWithoutMode ==
  [][(pc' = "interruptRunStepperMotors" /\ NoModeActive)
     => /\ UNCHANGED <<AxisPositions, driver123Dir, driverStep>>
        /\ tickWrites' = << >>]_vars

\* a firing without a mode that found axis 1 off its target
C5_Witness ==
  /\ pc = "interruptRunStepperMotors"
  /\ NoModeActive
  /\ stepper1CurrentPosSteps # stepper1TargetPosSteps
  /\ tickWrites = << >>

StopProgramSucceeds == pc' = "stopProgram" /\ isProgramRunning

\* C6 as stated (SpecModeOps): after stopProgram, called while the program
\* was running, the actual and the target duty cycle of all four DC channels
\* are 0, both logic pins of every channel are LOW, elapsedTime is 0 and
\* neither isProgramRunning nor isRunningToStartPos is set.
C6_AsStated ==
  [][StopProgramSucceeds
     => /\ \A i \in Motors : dcCurrentCycle'[i] = 0 /\ dcTargetCycle'[i] = 0
        /\ \A i \in Motors : ~dcIn1'[i] /\ ~dcIn2'[i]
        /\ elapsedTime' = 0
        /\ ~isProgramRunning' /\ ~isRunningToStartPos']_vars

\* C6 (SpecModeOps): after stopProgram, called while the program was
\* running, the actual duty cycle of all four DC channels is 0 and the
\* target duty cycles are as before the call, both logic pins of every
\* channel are LOW, elapsedTime is 0 and neither isProgramRunning nor
\* isRunningToStartPos is set.
C6_StopProgramPostcondition ==
  [][StopProgramSucceeds
     => /\ \A i \in Motors : dcCurrentCycle'[i] = 0
        /\ UNCHANGED dcTargetCycle
        /\ \A i \in Motors : ~dcIn1'[i] /\ ~dcIn2'[i]
        /\ elapsedTime' = 0
        /\ ~isProgramRunning' /\ ~isRunningToStartPos']_vars

\* the program stopped with a target duty cycle left standing
C6_Witness ==
  /\ pc = "stopProgram"
  /\ displayed = "Program stopped"
  /\ dcCurrentCycle[1] = 0
  /\ dcTargetCycle[1] # 0

C8_FinishInitializationPostcondition ==
  [][(pc' = "stopInitialization" /\ isInitializationRunning)
     => /\ NoModeActive'
        /\ \A a \in Axes :
             /\ CurrentPos(State, a)' = initSetActualPosMicrometer * STEPS_PER_MICROMETER
             /\ TargetPos(State, a)' = initSetActualPosMicrometer * STEPS_PER_MICROMETER
        /\ program' = 1]_vars

LimitsHold ==
  /\ \A i \in Motors, k \in Programs, m \in Segments :
       /\ Duty(State, i, k, m) >= -DUTY_MAX /\ Duty(State, i, k, m) <= DUTY_MAX
       /\ Timeslot(State, i, k, m) >= 0 /\ Timeslot(State, i, k, m) <= TIMESLOT_MAX
  /\ eepromData.stepperMicrometerPerHour >= 1
  /\ eepromData.stepperEndPosMicrometer >= 0
  /\ eepromData.stepperEndPosMicrometer <= eepromData.stepperStartPosMicrometer
  /\ eepromData.timeAfterReachingEndPos >= 0
  /\ eepromData.timeAfterReachingEndPos <= DWELL_MAX

\* C9 (SpecLimits): after ensureValuesWithinLimits every duty cycle of
\* channels 1..4, programs 1..8, segments 1..5 lies in -100..100 and every
\* timeslot in 0..599, the feed rate is at least 1, 0 <= end position <=
\* start position and 0 <= dwell time <= 32766, whatever edit or load went
\* before.
C9_LimitsAfterEnforcer == pc = NextCall("ensureValuesWithinLimits") => LimitsHold

\* the enforcer ran on a loaded timeslot of 65535 and a loaded duty of -1
C9_Witness ==
  /\ pc = NextCall("ensureValuesWithinLimits")
  /\ displayed = "Loading successful"
  /\ eeprom.dcTimeslot[Flat(1, 1, 1)] > TIMESLOT_MAX
  /\ dcTimeslot[Flat(1, 1, 1)] = TIMESLOT_MAX

\* C10 (SpecProgram): where loop() uses the program index after the limits
\* enforcer (setDcTargets, updateMenu) it is 0 if isInitializationRunning is
\* set and lies in 1..8 otherwise, whatever edit, long-press edit, load,
\* startInitialization or stopInitialization the button handling made.
C10_ProgramIndex ==
  pc \in {"setDcTargets", "updateMenu"}
    => IF isInitializationRunning THEN program = 0
       ELSE program >= 1 /\ program <= NUMBER_OF_PROGRAMS

\* setDcTargets is about to run after a long press of Up on the entry of
\* the program index that started from the last program
C10_Witness ==
  /\ pc = "setDcTargets"
  /\ menuCursor[1] = 3 /\ menuCursor[2] = 1
  /\ ~isInitializationRunning
  /\ menuProgram = NUMBER_OF_PROGRAMS
  /\ program = NUMBER_OF_PROGRAMS
  /\ isValueSelected
  /\ button2LongPressEvent

\* the sum of the timeslots of the segments 1..k of channel i in the active
\* program
RECURSIVE Boundary(_, _, _)
Boundary(s, i, k) ==
  IF k = 0 THEN 0 ELSE Boundary(s, i, k - 1) + Timeslot(s, i, s.program, k)

\* the first segment in the order A..E whose boundary t does not exceed
FirstSegment(s, i, t) ==
  CHOOSE k \in Segments :
    /\ t <= Boundary(s, i, k)
    /\ \A j \in 1..(k - 1) : t > Boundary(s, i, j)

SetDcTargetsRuns ==
  /\ pc = "setDcTargets"
  /\ pc' = NextCall("setDcTargets")
  /\ isProgramRunning
  /\ ~isInitializationRunning

C12_ZeroLengthCycleHeld ==
  [][SetDcTargetsRuns
     => \A i \in Motors : CycleLength(State, i) = 0 => dcTargetCycle'[i] = 0]_vars

\* C13 (SpecDc): in a call of runDcMotors while the program is running the
\* actual duty cycle of each channel moves by exactly one towards the target
\* if it differs from the target and stays if it equals the target, and it
\* lies in -100..100 afterwards.
C13_DcRamp ==
  [][(pc = "runDcMotors" /\ pc' = NextCall("runDcMotors") /\ isProgramRunning)
     => \A i \in Motors :
          /\ dcCurrentCycle[i] < dcTargetCycle[i] => dcCurrentCycle'[i] = dcCurrentCycle[i] + 1
          /\ dcCurrentCycle[i] > dcTargetCycle[i] => dcCurrentCycle'[i] = dcCurrentCycle[i] - 1
          /\ dcCurrentCycle[i] = dcTargetCycle[i] => dcCurrentCycle'[i] = dcCurrentCycle[i]
          /\ dcCurrentCycle'[i] >= -DUTY_MAX
          /\ dcCurrentCycle'[i] <= DUTY_MAX]_vars

\* runDcMotors has stepped channel 1 down from 100 towards -100 and left a
\* channel that stood at its target
C13_Witness ==
  /\ pc = NextCall("runDcMotors")
  /\ isProgramRunning
  /\ dcTargetCycle[1] = -DUTY_MAX
  /\ dcCurrentCycle[1] = DUTY_MAX - 1
  /\ \E i \in Motors : dcCurrentCycle[i] = DUTY_MAX /\ dcTargetCycle[i] = DUTY_MAX

\* C14 (SpecRunToStart): isRunningToStartPos, once set, is cleared by the
\* call of stopRunToStartPosIfReached that finds the current position of
\* all three axes equal to their targets, by nothing before it and by every
\* such call, and the message "Starting point reached" is shown by that
\* call only.
C14_RunToStartAutoExit ==
  [][/\ (isRunningToStartPos /\ ~isRunningToStartPos')
          => (pc = "stopRunToStartPosIfReached" /\ AllAxesAtTarget(State))
     /\ (pc = "stopRunToStartPosIfReached" /\ pc' # pc
           /\ isRunningToStartPos /\ AllAxesAtTarget(State))
          => (~isRunningToStartPos' /\ displayed' = "Starting point reached")
     /\ (displayed' = "Starting point reached" /\ displayed' # displayed)
          => (isRunningToStartPos /\ ~isRunningToStartPos')]_vars

\* C15 (SpecMenu): isValueSelected is true only while the entry that the
\* level and the cursors address is not read-only, whatever Enter, Up, Down
\* and Back events, alone, together or as long presses, the button handling
\* is given.
C15_ReadOnlyNeverSelected ==
  isValueSelected
    => LET e == EntryAtLevel(State) IN ~isReadOnly(e[1], e[2], e[3])

\* Enter was handled on the read-only entry Ttl Time and selected nothing
C15_Witness ==
  /\ pc = NextCall("handleButtonPressEvent")
  /\ level = 2
  /\ menuCursor[1] = 3 /\ menuCursor[2] = 11
  /\ ~isValueSelected
  /\ ~button1PressEvent /\ ~button4PressEvent
  /\ ~button2LongPressEvent /\ ~button3LongPressEvent

\* C16 (SpecPersist): eepromUpdate followed by eepromRead with nothing in
\* between leaves every dcDutyCycle and dcTimeslot cell and the three axis
\* current positions equal to their values before the save: at the step of
\* eepromUpdate the load of what the save left reproduces the values before
\* the save, and the step of eepromRead changes none of them.
C16_PersistenceRoundTrip ==
  [][/\ (pc = "eepromUpdate" /\ pc' = "eepromRead")
          => LET loaded == eepromRead(State')
             IN  /\ loaded.dcDutyCycle = dcDutyCycle
                 /\ loaded.dcTimeslot = dcTimeslot
                 /\ \A a \in Axes : CurrentPos(loaded, a) = CurrentPos(State, a)
     /\ (pc = "eepromRead" /\ pc' = "loaded")
          => /\ dcDutyCycle' = dcDutyCycle
             /\ dcTimeslot' = dcTimeslot
             /\ \A a \in Axes : CurrentPos(State', a) = CurrentPos(State, a)]_vars

\* the load has run after a save that replaced an erased EEPROM; the tables
\* hold limit values, raw values in the cells with an index 0, and the axes
\* stand at different positions
C16_Witness ==
  /\ pc = "loaded"
  /\ displayed = "Loading successful"
  /\ eeprom /= ErasedImage
  /\ Duty(State, 1, 1, 1) = -DUTY_MAX
  /\ Timeslot(State, 1, 1, 1) = TIMESLOT_MAX
  /\ Duty(State, 0, 0, 0) = -128
  /\ Timeslot(State, 1, 0, 0) = TwoTo16 - 1
  /\ stepper1CurrentPosSteps = 7
  /\ stepper2CurrentPosSteps = -1

\* the value of the integer object ptr addresses: an int global, an int
\* member of eepromData, an int8_t duty cell or a uint16_t timeslot cell
FieldValue(s, ptr) ==
  CASE ptr[1] = "int" -> s[ptr[2]]
    [] ptr[1] = "cfg" -> s.eepromData[ptr[2]]
    [] ptr[1] = "duty" -> Duty(s, ptr[2], ptr[3], ptr[4])
    [] ptr[1] = "slot" -> Timeslot(s, ptr[2], ptr[3], ptr[4])

\* an entry bound to an integer object is in edit mode
IntegerFieldSelected ==
  isValueSelected /\ EntryPtr(State)[1] \in {"int", "cfg", "duty", "slot"}

NoPressEventPending ==
  ~button1PressEvent /\ ~button3PressEvent /\ ~button2PressEvent /\ ~button4PressEvent

\* C17 (SpecLimits): in an iteration of loop() that starts with one of the
\* long-press flags of Up and Down set, an integer field in edit mode and no
\* press event pending, handleButtonLongPressEvent adds 6 times the step of
\* the entry (1, or 60 for a minutes entry) to the field for Up and
\* subtracts it for Down, and the handleButtonPressEvent that follows leaves
\* the field as it is, before ensureValuesWithinLimits runs.
C17_LongPressBulkEdit ==
  [][IF IntegerFieldSelected /\ NoPressEventPending
        /\ button2LongPressEvent /= button3LongPressEvent
     THEN LET ptr == EntryPtr(State)
              sign == IF button2LongPressEvent THEN 1 ELSE -1
          IN  /\ pc = "handleButtonLongPressEvent"
                   => FieldValue(State', ptr)
                        = FieldValue(State, ptr) + sign * LONG_PRESS_REPEATS * EditStep(State)
              /\ pc = "handleButtonPressEvent"
                   => FieldValue(State', ptr) = FieldValue(State, ptr)
     ELSE TRUE]_vars

\* C18 (SpecButtons): for Enter and Back (buttons 1 and 4) a tick of the
\* button interrupt raises the press-event flag only when the input reads
\* pressed with a same-reading count of at least BUTTON_CHANGECOUNT, and
\* only on the accepted transition from released to pressed; the accepted
\* level returns to released only on a tick that reads released with a
\* count of at least BUTTON_CHANGECOUNT.  So the flag is raised at most once
\* per hold.  The interrupt is the one step that leaves pc as it is.
C18_DebouncedOneShot ==
  [][\A n \in {1, 4} :
       /\ (pc' = pc /\ ButtonOf(State', n).press /\ ~ButtonOf(State, n).press)
            => /\ ~debounce'[n].last
               /\ debounce'[n].count >= BUTTON_CHANGECOUNT
               /\ ~debounce[n].state
               /\ debounce'[n].state
       /\ (debounce[n].state /\ ~debounce'[n].state)
            => /\ debounce'[n].last
               /\ debounce'[n].count >= BUTTON_CHANGECOUNT]_vars

\* Enter is still held one tick after the tick that raised its press event;
\* the handler has consumed the event (the menu is at level 2) and the flag
\* has not been raised again
C18_Witness ==
  /\ debounce[1].state
  /\ ~debounce[1].last
  /\ debounce[1].count = BUTTON_CHANGECOUNT + 1
  /\ ~button1PressEvent
  /\ level = 2

\* C19 (SpecButtons): for Up and Down (buttons 2 and 3) a tick that reads
\* pressed with a same-reading count of AUTOREPEAT_COUNT + 1 up to
\* LONG_PRESS_COUNT leaves the press-event flag set and the long-press flag
\* clear; a tick that reads pressed with a count above LONG_PRESS_COUNT
\* leaves the long-press flag set and does not raise the press-event flag;
\* a tick that reads released leaves the long-press flag clear.
C19_HoldBands ==
  [][\A n \in {2, 3} :
       (pc' = pc /\ debounce' /= debounce)
         => /\ (~debounce'[n].last /\ debounce'[n].count > AUTOREPEAT_COUNT
                  /\ debounce'[n].count <= LONG_PRESS_COUNT)
                 => ButtonOf(State', n).press /\ ~ButtonOf(State', n).long
            /\ (~debounce'[n].last /\ debounce'[n].count > LONG_PRESS_COUNT)
                 => /\ ButtonOf(State', n).long
                    /\ ButtonOf(State', n).press => ButtonOf(State, n).press
            /\ debounce'[n].last => ~ButtonOf(State', n).long]_vars

\* Up is held beyond LONG_PRESS_COUNT: the long-press flag is set and the
\* press event the handler consumed has not been raised again
C19_Witness ==
  /\ ~debounce[2].last
  /\ debounce[2].count > LONG_PRESS_COUNT
  /\ button2LongPressEvent
  /\ ~button2PressEvent

\* C20 (SpecDuration): after calculateRemainingTime, totalDuration is
\* ((start position - end position) * 3600) / feed rate, by integer
\* division, plus the dwell time, for configuration values within their
\* limits.  With distance = a * feed + b, 0 <= b < feed, the quotient is
\* a * 3600 + (b * 3600) / feed; a value above the range of int is none
\* totalDuration can hold.
C20_TotalDuration ==
  [][pc = "calculateRemainingTime"
       => LET e == eepromData
              feed == e.stepperMicrometerPerHour
              distance == e.stepperStartPosMicrometer - e.stepperEndPosMicrometer
              a == distance \div feed
              b == distance % feed
              dwell == e.timeAfterReachingEndPos
          IN  /\ a <= MaxInt \div 3600
              /\ a * 3600 + (b * 3600) \div feed <= MaxInt - dwell
              /\ totalDuration' = a * 3600 + (b * 3600) \div feed + dwell]_vars

\* C21 (SpecRunToStart): when stopRunToStartPosIfReached clears
\* isRunningToStartPos and shows "Starting point reached", the current
\* position of all three axes is the configured start position times
\* STEPS_PER_MICROMETER, whatever the state runToStartPos was accepted in.
C21_RunToStartEndsAtStart ==
  [][(pc = "stopRunToStartPosIfReached" /\ isRunningToStartPos /\ ~isRunningToStartPos')
       => \A a \in Axes :
            CurrentPos(State', a)
              = eepromData.stepperStartPosMicrometer * STEPS_PER_MICROMETER]_vars

\* C22 (SpecMenu): whenever a step of the button handling leaves
\* isValueSelected true, the entry that the level and the cursors address
\* has an itemPtr that is not null, so that no Up or Down edit goes through
\* a null pointer; this for every named entry, the separator rows included.
C22_EditModeHasBinding ==
  [][isValueSelected' => EntryPtr(State') /= NullPtr]_vars

(***************************************************************************)
(* SpecLoad: loop() and the stepper interrupt with a motion mode active    *)
(* and the axes off the positions of the last save.  The operator is in    *)
(* edit mode on LOAD Data or on SAVE Data with a drawn button event        *)
(* pending.                                                                *)
(***************************************************************************)
\* <<menuCursor[1], menuCursor[2]>>: LOAD Data, SAVE Data
LoadEntries == {<<1, 1>>, <<1, 2>>}

ActiveModeFlags == {m \in ModeFlags : m[1] \/ m[2] \/ m[3]}

InitLoad ==
  /\ \E m \in ActiveModeFlags, cur \in [Axes -> {0, 2}], entry \in LoadEntries,
        event \in DrawnEvents :
       LET s == [WithAxes(WithModes(Booted, m), cur, AllAxes(0)) EXCEPT
                   !.level = 2,
                   !.menuCursor = [l \in 1..NUMBER_OF_MENU_LEVELS |->
                                     IF l = 1 THEN entry[1]
                                     ELSE IF l = 2 THEN entry[2] ELSE 1],
                   !.isValueSelected = TRUE,
                   ![event] = TRUE,
                   !.program = IF m[2] THEN 0 ELSE 1,
                   !.menuProgram = IF m[2] THEN 0 ELSE 1]
       IN  AssignGlobals(setDisplayFrameBoundaries(s))
  /\ pc = LoopOrder[1]

NextLoad ==
  \/ HandleButtonLongPressEventOfAnyOperator
  \/ HandleButtonPressEventOfAnyOperator
  \/ EnsureValuesWithinLimits
  \/ UpdateInitActualPosition
  \/ StopRunToStartPosIfReached
  \/ SetStepperTargets
  \/ SetDcTargets
  \/ RunDcMotors
  \/ CalculateRemainingTime
  \/ StopProgramIfTimeIsUp
  \/ UpdateMenu
  \/ SetDisplayFrameBoundaries
  \/ DisplayMenu
  \/ StepperInterrupt

SpecLoad == InitLoad /\ [][NextLoad]_vars

\* C23 (SpecLoad): a step of the main loop that starts and ends with a
\* motion mode active (program run, initialization or run to start) leaves
\* the current position of every axis as it was; only the stepper tick
\* changes a position while a mode is active.  LOAD Data is among the
\* steps.
ModeActive(s) ==
  s.isProgramRunning \/ s.isRunningToStartPos \/ s.isInitializationRunning

C23_OnlyTickMovesAxes ==
  [][(pc' /= pc /\ ModeActive(State) /\ ModeActive(State'))
       => \A a \in Axes : CurrentPos(State', a) = CurrentPos(State, a)]_vars

(***************************************************************************)
(* SpecPulse: loop(), the stepper interrupt and the Up and Down buttons    *)
(* during initialization.  The operator is in edit mode on Move all, on    *)
(* Move 1 or on MOVE to Start and moves the target up and down within      *)
(* 0..MaxTravel micrometer; the step pins start LOW as pinMode leaves      *)
(* them.  The pass starts with the axes at 0 and the aggregate target at a *)
(* drawn value that setStepperTargets has already distributed.             *)
(***************************************************************************)
\* <<menuCursor[1], menuCursor[2]>>: the entries bound to
\* initStepperTargetPosMicrometer, initStepper1TargetPosMicrometer and
\* isRunningToStartPos
PulseEntries == {<<2, 4>>, <<2, 5>>, <<3, 2>>}

InitPulse ==
  /\ \E entry \in PulseEntries, phase \in BOOLEAN, ahead \in {0, MaxTravel} :
       LET s0 == [startInitialization(Booted) EXCEPT
                    !.initStepperTargetPosMicrometer = ahead]
           s == [setStepperTargets(s0) EXCEPT
                   !.level = 2,
                   !.menuCursor = [l \in 1..NUMBER_OF_MENU_LEVELS |->
                                     IF l = 1 THEN entry[1]
                                     ELSE IF l = 2 THEN entry[2] ELSE 1],
                   !.isValueSelected = TRUE,
                   !.interruptState = phase]
       IN  AssignGlobals(setDisplayFrameBoundaries(s))
  /\ pc = LoopOrder[1]

WithinTravel(s) ==
  /\ s.initStepperTargetPosMicrometer \in 0..MaxTravel
  /\ s.initStepper1TargetPosMicrometer \in 0..MaxTravel

\* the button interrupt raising a press event of Up or of Down
UpDownInterrupt ==
  /\ AtLoopBoundary
  /\ \E o2 \in RepeatOutcomes[<<button2PressEvent, button2LongPressEvent>>],
        o3 \in RepeatOutcomes[<<button3PressEvent, button3LongPressEvent>>] :
       LET r == [State EXCEPT !.button2PressEvent = o2[1],
                              !.button2LongPressEvent = o2[2],
                              !.button3PressEvent = o3[1],
                              !.button3LongPressEvent = o3[2]]
       IN  /\ r # State
           /\ ~o2[2] /\ ~o3[2]
           /\ \A ub \in BOOLEAN :
                WithinTravel(handleButtonPressEvent(handleButtonLongPressEvent(r, ub), ub))
           /\ Commit(r)
  /\ UNCHANGED pc

NextPulse ==
  \/ HandleButtonLongPressEventOfAnyOperator
  \/ HandleButtonPressEventOfAnyOperator
  \/ EnsureValuesWithinLimits
  \/ UpdateInitActualPosition
  \/ StopRunToStartPosIfReached
  \/ SetStepperTargets
  \/ SetDcTargets
  \/ RunDcMotors
  \/ CalculateRemainingTime
  \/ StopProgramIfTimeIsUp
  \/ UpdateMenu
  \/ SetDisplayFrameBoundaries
  \/ DisplayMenu
  \/ StepperInterrupt
  \/ UpDownInterrupt

SpecPulse == InitPulse /\ [][NextPulse]_vars

\* C24 (SpecPulse): a step changes the position counter of an axis by one
\* exactly when it makes the step line of that axis rise from LOW to HIGH,
\* so that the rising edges of a step line and the unit changes of the
\* axis's counter stay equal in number, also over the end of one move and
\* the start of the next on either pulse phase.
C24_EdgePerCount ==
  [][\A a \in Axes :
       (CurrentPos(State', a) /= CurrentPos(State, a))
         <=> (~driverStep[a] /\ driverStep'[a])]_vars

\* C25 (SpecDc): a call of runDcMotors during a program run, entered with
\* the PWM value of every channel equal to |dcCurrentCycle| * 255 / 100,
\* leaves every channel with that equality and, where the PWM value is not
\* zero, with the direction pins forward (IN1 HIGH, IN2 LOW) exactly when
\* dcCurrentCycle >= 0 and reverse exactly when it is negative.
C25_DriveMatchesCycle ==
  [][(/\ pc = "runDcMotors" /\ pc' /= pc
      /\ isProgramRunning
      /\ \A i \in Motors : dcPwm[i] = PwmValue(dcCurrentCycle[i]))
       => \A i \in Motors :
            /\ dcPwm'[i] = PwmValue(dcCurrentCycle'[i])
            /\ dcPwm'[i] /= 0
                 => /\ dcIn1'[i] <=> dcCurrentCycle'[i] >= 0
                    /\ dcIn2'[i] <=> dcCurrentCycle'[i] < 0]_vars

\* C26 (SpecLimits): a step of the button handling taken in edit mode on an
\* entry bound to one cell of dcDutyCycle or of dcTimeslot changes no cell
\* of the two arrays other than the bound one, whatever value the bound
\* cell starts from (0, -1 and the range bounds included).
C26_EditChangesBoundCellOnly ==
  [][LET ptr == EntryPtr(State)
     IN  IF pc \in {"handleButtonLongPressEvent", "handleButtonPressEvent"}
            /\ isValueSelected /\ ptr[1] \in {"duty", "slot"}
         THEN LET f == Flat(ptr[2], ptr[3], ptr[4])
              IN  \A g \in Cells :
                    /\ (ptr[1] = "slot" \/ g /= f) => dcDutyCycle'[g] = dcDutyCycle[g]
                    /\ (ptr[1] = "duty" \/ g /= f) => dcTimeslot'[g] = dcTimeslot[g]
         ELSE TRUE]_vars

\* C27 (SpecLimits): in edit mode on a timeslot or duty-cycle entry whose
\* cell stands at a bound of its range, the press of the button that leads
\* out of the range, followed by ensureValuesWithinLimits, leaves the cell
\* at that bound: Down at timeslot 0 leaves 0, Up at TIMESLOT_MAX leaves
\* TIMESLOT_MAX, Down at -DUTY_MAX and Up at DUTY_MAX leave the duty cycle.
C27_BoundAbsorbsEdit ==
  [][LET ptr == EntryPtr(State)
     IN  IF pc = "handleButtonPressEvent" /\ isValueSelected
            /\ ptr[1] \in {"duty", "slot"}
            /\ button2PressEvent /= button3PressEvent
            /\ ~button1PressEvent /\ ~button4PressEvent
         THEN LET lower == IF ptr[1] = "slot" THEN 0 ELSE -DUTY_MAX
                  upper == IF ptr[1] = "slot" THEN TIMESLOT_MAX ELSE DUTY_MAX
                  bound == IF button3PressEvent THEN lower ELSE upper
              IN  FieldValue(State, ptr) = bound
                    => FieldValue(ensureValuesWithinLimits(State'), ptr) = bound
         ELSE TRUE]_vars

\* lines 778-795 for channel i: the segment whose test assigns last, 0 if no
\* test is true
SelectedSegment(s, i, t) ==
  LET ts(k) == Timeslot(s, i, s.program, k)
      b1 == ts(1)
      b2 == b1 + ts(2)
      b3 == b2 + ts(3)
      b4 == b3 + ts(4)
      k1 == IF t <= b1 THEN 1 ELSE 0
      k2 == IF t > b1 /\ t <= b2 THEN 2 ELSE k1
      k3 == IF t > b2 /\ t <= b3 THEN 3 ELSE k2
      k4 == IF t > b3 /\ t <= b4 THEN 4 ELSE k3
  IN  IF t > b4 THEN 5 ELSE k4

\* C28 (SpecDc): when setDcTargets runs during a program, for every channel
\* with cycle length L > 0 and every segment k, the number of values t in
\* 0..L-1 of the elapsed time in the cycle for which segment k is selected
\* is timeslot[k]; so a segment with timeslot 0 is selected for no t.
C28_SegmentShare ==
  [][SetDcTargetsRuns
     => \A i \in Motors :
          CycleLength(State, i) > 0
            => \A k \in Segments :
                 Cardinality({t \in 0..(CycleLength(State, i) - 1) :
                                SelectedSegment(State, i, t) = k})
                   = Timeslot(State, i, program, k)]_vars

\* C29 (SpecMenu): a call of handleButtonPressEvent entered with the press
\* flags of Enter and of Back both set leaves the navigation state (level,
\* the cursors, the window bounds and isValueSelected) as it was, in every
\* menu state.
C29_ChordKeepsNavigation ==
  [][(pc = "handleButtonPressEvent" /\ button1PressEvent /\ button4PressEvent)
       => UNCHANGED <<level, menuCursor, lowerFrameBound, upperFrameBound,
                      isValueSelected>>]_vars

\* C30 (SpecMenu): lowerFrameBound and upperFrameBound are written only at
\* indices inside their declared bounds (below FRAME_ARRAY_SIZE), at every
\* level from 1 to NUMBER_OF_MENU_LEVELS: no step changes the element
\* behind the arrays.
C30_FrameIndexInBounds ==
  [][\A l \in 1..NUMBER_OF_MENU_LEVELS :
       (lowerFrameBound'[l] /= lowerFrameBound[l]
          \/ upperFrameBound'[l] /= upperFrameBound[l])
         => l < FRAME_ARRAY_SIZE]_vars

\* the entry under the cursor of s has a named first entry one level deeper
HasChild(s) ==
  LET c == s.menuCursor
  IN  CASE s.level = 1 -> itemNamed(c[1], 1, 0)
        [] s.level = 2 -> itemNamed(c[1], c[2], 1)
        [] OTHER -> FALSE

\* C31 (SpecMenu): a call of handleButtonPressEvent with the Enter event and
\* no Back event, outside edit mode, increases level by exactly 1 and keeps
\* isValueSelected false if the entry under the cursor has a named first
\* entry one level deeper; otherwise it keeps level and makes
\* isValueSelected true exactly if the entry is not read-only.  In edit mode
\* the call keeps level.  Every step leaves level within
\* 1..NUMBER_OF_MENU_LEVELS.
C31_EnterDescendsOrSelects ==
  [][/\ level' \in 1..NUMBER_OF_MENU_LEVELS
     /\ (pc = "handleButtonPressEvent" /\ button1PressEvent /\ ~button4PressEvent)
          => IF isValueSelected THEN level' = level
             ELSE IF HasChild(State)
             THEN level' = level + 1 /\ ~isValueSelected'
             ELSE LET e == EntryAtLevel(State)
                  IN  /\ level' = level
                      /\ isValueSelected' <=> ~isReadOnly(e[1], e[2], e[3])]_vars

\* Enter was handled on Program 1 of menu 4 and opened its submenu;
\* setDisplayFrameBoundaries has not yet moved the window of level 3
C31_Witness ==
  /\ pc = NextCall("handleButtonPressEvent")
  /\ level = 3
  /\ menuCursor = <<4, 1, 1>>
  /\ upperFrameBound[3] < lowerFrameBound[3]
  /\ ~isValueSelected
  /\ ~button1PressEvent /\ ~button2PressEvent /\ ~button3PressEvent /\ ~button4PressEvent

\* the entry after the one under the cursor of the current level is named
NextEntryNamed(s) ==
  LET c == s.menuCursor
  IN  CASE s.level = 1 -> itemNamed(c[1] + 1, 0, 0)
        [] s.level = 2 -> itemNamed(c[1], c[2] + 1, 0)
        [] s.level = 3 -> itemNamed(c[1], c[2], c[3] + 1)

\* C32 (SpecMenu): a call of handleButtonPressEvent with the press event of
\* Up or of Down alone.  Outside edit mode it keeps level and the cursors of
\* the other levels and moves the cursor of the current level by one, Up
\* not at the first entry and Down not at the last named entry, so that the
\* cursor addresses a named entry afterwards.  In edit mode on an entry
\* bound to an integer it keeps level and all cursors and changes the bound
\* field by exactly 1, or by exactly MINUTE_INCREMENT if the entry is
\* flagged isMinutes.
C32_UpDownMovesOrEdits ==
  [][IF pc = "handleButtonPressEvent" /\ button2PressEvent /= button3PressEvent
        /\ ~button1PressEvent /\ ~button4PressEvent
     THEN LET e == EntryAtLevel(State)
              ptr == EntryPtr(State)
              sign == IF button2PressEvent THEN 1 ELSE -1
              step == IF isMinutes(e[1], e[2], e[3]) THEN MINUTE_INCREMENT ELSE 1
              moved == IF button2PressEvent THEN menuCursor[level] >= 2
                       ELSE NextEntryNamed(State)
              n == EntryAtLevel(State')
          IN  /\ level' = level
              /\ isValueSelected' = isValueSelected
              /\ IF ~isValueSelected
                 THEN /\ menuCursor' =
                           [menuCursor EXCEPT ![level] = IF moved THEN @ - sign ELSE @]
                      /\ itemNamed(n[1], n[2], n[3])
                 ELSE /\ menuCursor' = menuCursor
                      /\ ptr[1] \in {"int", "cfg", "duty", "slot"}
                           => FieldValue(State', ptr) = FieldValue(State, ptr) + sign * step
     ELSE TRUE]_vars

\* C33 (SpecMenu): a call of handleButtonPressEvent with the Back event
\* alone.  In edit mode it clears isValueSelected and keeps level, the
\* cursors and the window bounds.  Outside edit mode it sets the cursor of
\* the current level to 1 and its window to 1..4 and decreases level by 1,
\* keeping level 1 at level 1.  After every step the cursors of the levels
\* deeper than level are 1.
C33_BackLeavesOrDeselects ==
  [][/\ \A l \in 1..NUMBER_OF_MENU_LEVELS : l > level' => menuCursor'[l] = 1
     /\ (pc = "handleButtonPressEvent" /\ button4PressEvent
           /\ ~button1PressEvent /\ ~button2PressEvent /\ ~button3PressEvent)
          => /\ ~isValueSelected'
             /\ IF isValueSelected
                THEN UNCHANGED <<level, menuCursor, lowerFrameBound, upperFrameBound>>
                ELSE /\ level' = IF level >= 2 THEN level - 1 ELSE 1
                     /\ menuCursor' = [menuCursor EXCEPT ![level] = 1]
                     /\ lowerFrameBound' = [lowerFrameBound EXCEPT ![level] = 1]
                     /\ upperFrameBound' = [upperFrameBound EXCEPT ![level] = 4]]_vars

\* Back was handled at level 3 outside edit mode: level is 2, the cursor of
\* level 3 is 1 and its window 1..4
C33_Witness ==
  /\ pc = NextCall("handleButtonPressEvent")
  /\ level = 2
  /\ menuCursor[3] = 1
  /\ lowerFrameBound[3] = 1 /\ upperFrameBound[3] = 4
  /\ ~isValueSelected
  /\ ~button4PressEvent

\* the operation of the entry bound to the action object ptr: LOAD Data,
\* SAVE Data, START Program, STOP Program, START Init, STOP Init, MOVE to
\* Start
ActionOf(ptr, s) ==
  CASE ptr = <<"flag", "eepromReadFlag">> -> eepromRead(s)
    [] ptr = <<"flag", "eepromUpdateFlag">> -> eepromUpdate(s)
    [] ptr = <<"flag", "startProgramFlag">> -> startProgram(s)
    [] ptr = <<"flag", "stopProgramFlag">> -> stopProgram(s)
    [] ptr = <<"flag", "startInitializationFlag">> -> startInitialization(s)
    [] ptr = <<"flag", "stopInitializationFlag">> -> stopInitialization(s)
    [] ptr = <<"mode", "isRunningToStartPos">> -> runToStartPos(s)

ActionSelected ==
  /\ isValueSelected
  /\ level = 2
  /\ EntryPtr(State)[1] \in {"flag", "mode"}

\* C34 (SpecMenu): a call of handleButtonPressEvent with the Enter event
\* alone, in edit mode on an entry bound to an action, leaves the state
\* that one call of the action of that entry produces, with the Enter and
\* Back flags and isValueSelected false; level and the cursors are as
\* before.
C34_ActionOnceThenBack ==
  [][(pc = "handleButtonPressEvent" /\ ActionSelected /\ button1PressEvent
        /\ ~button2PressEvent /\ ~button3PressEvent /\ ~button4PressEvent)
       => /\ State' = [ActionOf(EntryPtr(State), State) EXCEPT
                         !.button1PressEvent = FALSE,
                         !.isValueSelected = FALSE]
          /\ ~isValueSelected' /\ ~button4PressEvent'
          /\ level' = level /\ menuCursor' = menuCursor]_vars

\* Enter was handled on START Program: the program is running and edit mode
\* has been left
C34_Witness ==
  /\ pc = NextCall("handleButtonPressEvent")
  /\ level = 2
  /\ menuCursor[1] = 3 /\ menuCursor[2] = 3
  /\ isProgramRunning
  /\ displayed = "Starting Program"
  /\ ~isValueSelected
  /\ ~button1PressEvent /\ ~button4PressEvent

\* C35 (SpecMenu): when a call of handleButtonPressEvent returns, the press
\* event flags of Enter, Up, Down and Back are all false, the Back event an
\* action sets included.
C35_PressFlagsConsumed ==
  [][pc = "handleButtonPressEvent"
       => /\ ~button1PressEvent' /\ ~button2PressEvent'
          /\ ~button3PressEvent' /\ ~button4PressEvent']_vars

\* Enter was handled on LOAD Data, which set the Back event: no press event
\* is left
C35_Witness ==
  /\ pc = NextCall("handleButtonPressEvent")
  /\ menuCursor[1] = 1 /\ menuCursor[2] = 1
  /\ level = 2
  /\ displayed = "Loading successful"
  /\ ~button1PressEvent /\ ~button2PressEvent
  /\ ~button3PressEvent /\ ~button4PressEvent

\* C36 (SpecPulse): after a call of setStepperTargets during initialization
\* the aggregate accumulator initStepperCurrentPosMicrometer equals the
\* aggregate target initStepperTargetPosMicrometer, each of the three
\* per-axis offsets has changed by what the accumulator changed by in the
\* call, and the step target of each axis is its offset times
\* STEPS_PER_MICROMETER.
C36_InitTargets ==
  [][(pc = "setStepperTargets" /\ pc' /= pc /\ isInitializationRunning)
       => /\ initStepperCurrentPosMicrometer' = initStepperTargetPosMicrometer'
          /\ \A a \in Axes :
               /\ InitAxisTarget(State', a) - InitAxisTarget(State, a)
                    = initStepperCurrentPosMicrometer' - initStepperCurrentPosMicrometer
               /\ TargetPos(State', a) = InitAxisTarget(State', a) * STEPS_PER_MICROMETER]_vars

AllAtTarget == \A a \in Axes : CurrentPos(State, a) = TargetPos(State, a)

\* C37 (SpecStepperFair): with a motion mode active and the targets fixed,
\* the stepper interrupt firing again and again brings every axis to its
\* target, also with axes that have to move in opposite directions; and no
\* firing moves an axis away from its target or by more than one step.
C37_StepperConvergence ==
  /\ [](AnyModeActive(State) => <>AllAtTarget)
  /\ [][\A a \in Axes :
          LET before == Abs(TargetPos(State, a) - CurrentPos(State, a))
              after == Abs(TargetPos(State', a) - CurrentPos(State', a))
          IN  after <= before /\ before - after <= 1]_vars

\* axes 1 and 2 had targets in opposite directions; the last firing
\* serviced the counter-clockwise direction and every axis is at its target
C37_Witness ==
  /\ pc = "interruptRunStepperMotors"
  /\ AnyModeActive(State)
  /\ AllAtTarget
  /\ stepper1TargetPosSteps = MaxSteps /\ stepper2TargetPosSteps = 0
  /\ isStepperBlockedCw
  /\ tickWrites /= << >>

(***************************************************************************)
(* C38: the DC motors are off outside a program run.  In every reachable   *)
(* state with isProgramRunning false, dcCurrentCycle is 0 on every channel *)
(* and both logic pins of every channel are LOW; a call of setDcTargets or *)
(* of runDcMotors made while no program is running changes nothing.        *)
(***************************************************************************)
DcOff ==
  \A i \in Motors : dcCurrentCycle[i] = 0 /\ ~dcIn1[i] /\ ~dcIn2[i]

C38_DcOffOutsideProgram ==
  /\ [](~isProgramRunning => DcOff)
  /\ [][(/\ pc \in {"setDcTargets", "runDcMotors"}
         /\ pc' = NextCall(pc)
         /\ ~isProgramRunning) => State' = State]_vars

\* a program that drove the motors has been stopped and the loop has passed
\* runDcMotors since
C38_Witness ==
  /\ ~isProgramRunning
  /\ \E i \in Motors : dcTargetCycle[i] /= 0 /\ dcPwm[i] /= 0
  /\ pc = NextCall("runDcMotors")
  /\ DcOff

(***************************************************************************)
(* C39: a running program stops by itself.  In the loop iteration in which *)
(* calculateRemainingTime finds the elapsed seconds at or above            *)
(* totalDuration, stopProgramIfTimeIsUp stops the program; and with time   *)
(* advancing and the configuration untouched every running program is      *)
(* eventually not running, with no mode active.                            *)
(***************************************************************************)
TimeIsUp == isProgramRunning /\ elapsedTime >= totalDuration

C39_StopsWhenTimeIsUp ==
  [][(pc = "stopProgramIfTimeIsUp" /\ TimeIsUp) => NoModeActive']_vars

C39_AutoStop ==
  /\ C39_StopsWhenTimeIsUp
  /\ [](isProgramRunning => <>NoModeActive)

\* the range of the elapsed seconds: (2^32 - 1) / 1000
MaxElapsedSeconds == ((TwoTo16 \div 1000) * TwoTo16) + (((TwoTo16 % 1000) * TwoTo16 + TwoTo16 - 1) \div 1000)

\* the same for the programs whose total duration the elapsed seconds reach
C39_AutoStopWithinRange ==
  /\ C39_StopsWhenTimeIsUp
  /\ [](isProgramRunning /\ pc = "stopProgramIfTimeIsUp"
        /\ totalDuration <= MaxElapsedSeconds => <>NoModeActive)

(***************************************************************************)
(* C40: the display window follows the cursor.  After every call of        *)
(* setDisplayFrameBoundaries the window of the current level has four rows *)
(* (upperFrameBound = lowerFrameBound + 3) and holds the cursor, at each   *)
(* of the three levels and whatever Up, Down, Enter and Back events came   *)
(* before.                                                                 *)
(***************************************************************************)
WindowHoldsCursor(s) ==
  /\ s.lowerFrameBound[s.level] <= s.menuCursor[s.level]
  /\ s.menuCursor[s.level] <= s.upperFrameBound[s.level]
  /\ s.upperFrameBound[s.level] = s.lowerFrameBound[s.level] + 3

C40_WindowHoldsCursor ==
  [][(pc = "setDisplayFrameBoundaries" /\ pc' = NextCall(pc))
       => WindowHoldsCursor(State')]_vars

\* the same at the levels whose windows are elements of the arrays
C40_WindowAtArrayLevels ==
  [][(pc = "setDisplayFrameBoundaries" /\ pc' = NextCall(pc)
      /\ level < FRAME_ARRAY_SIZE) => WindowHoldsCursor(State')]_vars

\* the same at level 3 once the cells behind the arrays hold a window
C40_WindowAfterFirstWrite ==
  [][(pc = "setDisplayFrameBoundaries" /\ pc' = NextCall(pc)
      /\ upperFrameBound[level] = lowerFrameBound[level] + 3)
       => WindowHoldsCursor(State')]_vars

====
